---- MODULE Spec2Model ----
(***************************************************************************)
(* A model of the two concurrency primitives of the repository:            *)
(*                                                                         *)
(*   - coproto's SockScheduler (SocketScheduler.h): many forks multiplexed *)
(*     over one stream, with a writer task, a reader task, per-op          *)
(*     cancellation and flush;                                             *)
(*   - macoro's sequence_mpsc (sequence_mpsc.h): a multi-producer          *)
(*     sequencer with an intrusive lock-free list of awaiters.             *)
(*                                                                         *)
(* The stream is modelled in units of one 32-bit word: a header is two     *)
(* words, a control block four, and a transfer that stops early stops      *)
(* after a whole number of words.                                          *)
(***************************************************************************)
EXTENDS Integers, Sequences, FiniteSets, TLC

(***************************************************************************)
(* Bounds of the model.                                                    *)
(***************************************************************************)
NumForks == 2
MaxOps == 3
MaxPayload == 2
MaxFlush == 1
MaxPeerFrames == 3
NumProducers == 2
NumWaiters == 2
MaxSeq == 3
BufferBits == 1
MaxListSeq == 2
SeqBits == 4

(***************************************************************************)
(* Program constants.                                                      *)
(***************************************************************************)
HeaderWords == 2
CtrlBlkWords == 4

Forks == 1..NumForks
OpIds == 1..MaxOps
FlushIds == 1..MaxFlush

VARIABLES
    \* ---- SockScheduler, state shared by both halves (guarded by mMutex) ----
    ops,            \* every SendOperation2 / RecvOperation2 ever created, by id
    numOps,         \* how many operations have been created
    flushes,        \* every FlushToken ever created, by id
    numFlush,       \* how many flush tokens have been created
    mClosed,        \* the scheduler is closed
    mEC,            \* the first transport error, "ok" if none
    \* ---- send half ----
    mSendOps2_,     \* per fork: the slot's queue of pending send ops (ids)
    mSendBuffers_,  \* the list of slots with a pending send, one entry per op
    mSendStatus,    \* Status of the send half
    mInitiated,     \* per fork: Slot::mInitiated
    sendSrcLive,    \* mSendCancelSrc.stop_possible()
    sendTokGen,     \* which stop state mSendToken / mSendCancelSrc refer to
    stopReq,        \* the send stop states on which request_stop() was called
    \* ---- writer task (makeSendTask), its coroutine frame ----
    wPc, wEc, wFork, wOp, wData, wBuf, wTok, restoreBuffer,
    wire,           \* every word written to the stream so far, in order
    \* ---- receive half ----
    mRecvOps2_,     \* per fork: the slot's queue of pending recv ops (ids)
    mNumRecvs,      \* number of pending recv ops
    mRecvStatus,    \* Status of the receive half
    mRequestedRecvSlot,   \* the fork the reader waits for a recv on, 0 if none
    mRemoteSlotMapping_,  \* the peer's slot-id -> fork, 0 where unbound
    mHaveRecvHeader, mRecvHeader,
    recvSrcLive,    \* mRecvCancelSrc.stop_possible()
    recvTokGen,     \* which stop state mRecvToken / mRecvCancelSrc refer to
    recvStopReq,    \* the recv stop states on which request_stop() was called
    \* ---- reader task (receiveDataTask), its coroutine frame ----
    rPc, rEc, rFork, rOp, rBufLen, rTok, restoreReadSize,
    inStream,       \* every word the peer has written, in order
    rdPos,          \* how many of them the reader has taken from the stream
    delivered,      \* per recv op: the words written into its buffer
    \* ---- the peer ----
    peerSeen,       \* the forks the peer has announced with a NewSlot frame
    numPeerFrames   \* how many data frames the peer has written

\* ---- the scheduler's lifetime ----
VARIABLES
    sockCloses,     \* how many times mCloseSock() has called sock->close()
    dtor            \* "none", or how ~SockScheduler ended: "returned" | "terminated"

lifeVars == <<sockCloses, dtor>>

\* ---- the scheduler's slots ----
VARIABLES
    mSlots_,          \* the Slots in the order of their creation
    mNextLocalSlot,   \* the local slot-id the next Slot gets
    mIdSlotMapping_,  \* SessionID -> position of its Slot in mSlots_, 0 if it has none
    slotCall          \* the last lookup or binding of a slot and what it returned

slotVars == <<mSlots_, mNextLocalSlot, mIdSlotMapping_, slotCall>>

\* ---- the scheduler's mutex and who is where with respect to it ----
VARIABLES
    mMutex,    \* the party that holds mMutex, "free" if none does
    lockPc     \* per party: where it is in its code

lockVars == <<mMutex, lockPc>>

\* ---- a CBList ----
VARIABLES
    mSize,        \* CBList::mSize
    mArray,       \* CBList::mArray, the handles in the small buffer
    mVec,         \* CBList::mVec
    cbPushed,     \* the handles given to push_back, in order
    cbResumed,    \* the handles get() has resumed, in order
    cbReturned    \* what get() has returned

cbVars == <<mSize, mArray, mVec, cbPushed, cbResumed, cbReturned>>

sharedVars == <<ops, numOps, flushes, numFlush, mClosed, mEC>>

sendVars == <<mSendOps2_, mSendBuffers_, mSendStatus, mInitiated,
              sendSrcLive, sendTokGen, stopReq,
              wPc, wEc, wFork, wOp, wData, wBuf, wTok, restoreBuffer, wire>>

recvVars == <<mRecvOps2_, mNumRecvs, mRecvStatus, mRequestedRecvSlot,
              mRemoteSlotMapping_, mHaveRecvHeader, mRecvHeader,
              recvSrcLive, recvTokGen, recvStopReq,
              rPc, rEc, rFork, rOp, rBufLen, rTok, restoreReadSize,
              inStream, rdPos, delivered, peerSeen, numPeerFrames>>

schedVars == <<sharedVars, sendVars, recvVars, lifeVars, slotVars, lockVars, cbVars>>

\* ---- sequence_mpsc ----
VARIABLES
    active,               \* the threads that use the sequencer in this run
    initialSequence,      \* the constructor's initialSequence
    m_published,          \* the array, by index
    m_nextToClaim,
    m_awaiters,           \* the intrusive list, head first
    barrier,              \* m_consumerBarrier.last_published()
    publishedByCall,      \* the sequences a publish call has stored
    claimLog,             \* the ranges handed out by fetch_add, in order
    tPc,
    claimedRange,         \* per producer: <<first, count>>
    claimOp,              \* per producer: the claim operation it has built last:
                          \* held, awaited or dropped
    pubQ,                 \* per producer: the stores publish still has to make
    m_targetSequence, m_lastKnownPublished, m_readyToResume,   \* per awaiter
    retVal,               \* per waiter: what await_resume returned
    known,                \* per waiter: the last value it was given
    lAwaiters,            \* awaiters, the list a call has detached
    lToResume,            \* awaitersToResume
    lToRequeue,           \* awaitersToRequeue / awaitersToEnqueue
    lLkp,                 \* lastKnownPublished
    lTarget,              \* earliestTargetSequence / targetSequence
    lSeq                  \* seq, the cursor of a scan

\* ---- sequence_mpsc: the intrusive list of awaiters as the pointers it is made of ----
VARIABLES
    m_next,                 \* per awaiter: m_next
    m_awaitersHead,         \* m_awaiters, the pointer to the first awaiter
    awaiters,               \* per thread: awaiters, the list a call has detached
    awaitersToResume,       \* per thread: the head of the list of awaiters to resume
    awaitersToResumeTail,   \* per thread: where the next awaiter to resume is linked
    awaitersToRequeue,      \* per thread: awaitersToRequeue / awaitersToEnqueue
    awaitersToRequeueTail,  \* per thread: where the next awaiter to requeue is linked
    oldHead                 \* per thread: the expected value of the compare_exchange

listVars == <<m_next, m_awaitersHead, awaiters, awaitersToResume, awaitersToResumeTail,
              awaitersToRequeue, awaitersToRequeueTail, oldHead>>

\* ---- sequence_mpsc: the constructor ----
VARIABLES
    ctorPc,       \* "loop" in the do-while, "built" after it, "observed" after a
                  \* first last_published_after(initialSequence)
    ctorSeq,      \* seq, the cursor of the loop
    ctorStores,   \* the indexes of m_published stored to, in order
    ctorRet       \* what last_published_after(initialSequence) returned

ctorVars == <<ctorPc, ctorSeq, ctorStores, ctorRet>>

seqVars == <<listVars, claimOp, active, initialSequence, m_published, m_nextToClaim, m_awaiters, barrier,
             publishedByCall, claimLog, tPc, claimedRange, pubQ,
             m_targetSequence, m_lastKnownPublished, m_readyToResume,
             retVal, known, lAwaiters, lToResume, lToRequeue, lLkp, lTarget, lSeq,
             ctorVars>>

vars == <<schedVars, seqVars>>

(***************************************************************************)
(* Sequence helpers.                                                       *)
(***************************************************************************)
Take(s, n) == SubSeq(s, 1, n)
Drop(s, n) == SubSeq(s, n + 1, Len(s))
Range(s) == {s[i] : i \in 1..Len(s)}
RemoveAt(s, i) == SubSeq(s, 1, i - 1) \o SubSeq(s, i + 1, Len(s))
Min(a, b) == IF a < b THEN a ELSE b

\* std::find(queue.begin(), queue.end(), x): the first position of x, 0 if absent
FindFirst(s, x) ==
    IF \E i \in 1..Len(s) : s[i] = x
    THEN CHOOSE i \in 1..Len(s) : s[i] = x /\ \A j \in 1..(i - 1) : s[j] # x
    ELSE 0

(***************************************************************************)
(* Words on the stream.  val is what the peer reads; kind, fork, op and    *)
(* idx say where the word came from and take no part in the program.       *)
(***************************************************************************)
Word(v, k, f, o, i) == [val |-> v, kind |-> k, fork |-> f, op |-> o, idx |-> i]

\* Slot::mLocalId of the sender: the model binds fork f to local slot-id f
LocalId(f) == f

\* the 128-bit SessionID of fork f as four words
SidWord(f) == 10 + f

\* SendControlBlock: Header [0, slot-id] followed by the ControlBlock
MetaFrame(f) ==
    <<Word(0, "M", f, 0, 1), Word(LocalId(f), "M", f, 0, 2)>>
    \o [i \in 1..CtrlBlkWords |-> Word(SidWord(f), "M", f, 0, HeaderWords + i)]

\* Header [size, slot-id]
HeaderOf(f, o, n) == <<Word(n, "H", f, o, 1), Word(LocalId(f), "H", f, o, 2)>>

\* the payload of op o: n words
PayloadOf(f, o, n) == [i \in 1..n |-> Word(o, "P", f, o, i)]

DataFrame(f, o, n) == HeaderOf(f, o, n) \o PayloadOf(f, o, n)

(***************************************************************************)
(* Operations and flush tokens.                                            *)
(***************************************************************************)
NoOp == [kind |-> "none", fork |-> 0, size |-> 0, st |-> "none", res |-> "none",
         inProgress |-> FALSE, flushes |-> {}, resumed |-> 0,
         cb |-> "idle", cbGen |-> 0]

NoFlush == [st |-> "none", pending |-> {}, resumed |-> 0]

\* the operations that still sit in a slot's queue
Pending(o) == {j \in OpIds : o[j].st = "queued"}

\* shared_ptr<FlushToken>::use_count(): every pending op the token was attached to
\* holds one reference
UseCount(o, f) == Cardinality({j \in Pending(o) : f \in o[j].flushes})

\* getCB without the use_count() test: every token's handle is handed over
GetCBFlushesAny(o, id) == o[id].flushes

\* getCB: the flush tokens whose handle this op hands over, being their last holder
GetCBFlushes(o, id) == {f \in o[id].flushes : UseCount(o, f) = 1}

\* getCB that hands over no handle: the op is settled and nobody is resumed
SettleOpUnresumed(o, id, r) ==
    [o EXCEPT ![id].st = "done", ![id].res = r, ![id].flushes = {}]

\* getCB followed by the erase of the op from its queue, as seen in ops
SettleOp(o, id, r) ==
    [o EXCEPT ![id].st = "done", ![id].res = r, ![id].resumed = @ + 1,
              ![id].flushes = {}]

\* getCB as seen in the flush tokens: the handles taken are resumed
SettleFlush(fl, o, id) ==
    [f \in FlushIds |->
        IF f \in GetCBFlushes(o, id)
        THEN [fl[f] EXCEPT !.resumed = @ + 1]
        ELSE fl[f]]

\* close(): every pending op fails with the error r, one after the other
CloseOps(o, r) ==
    [j \in OpIds |-> IF o[j].st = "queued" THEN SettleOp(o, j, r)[j] ELSE o[j]]

CloseFlush(fl, o) ==
    [f \in FlushIds |->
        IF UseCount(o, f) > 0 THEN [fl[f] EXCEPT !.resumed = @ + 1] ELSE fl[f]]

(***************************************************************************)
(* send(): the op is appended to its slot's queue and the slot to the      *)
(* pending-send list; an idle send half is armed.                          *)
(***************************************************************************)
Send(f, n) ==
    /\ dtor = "none"
    /\ numOps < MaxOps
    /\ LET id == numOps + 1
           op == [NoOp EXCEPT !.kind = "send", !.fork = f, !.size = n]
       IN
       /\ numOps' = id
       /\ IF mClosed
          THEN /\ ops' = [ops EXCEPT ![id] =
                            [op EXCEPT !.st = "done", !.res = mEC, !.resumed = 1]]
               /\ UNCHANGED <<mSendOps2_, mSendBuffers_, mSendStatus, wPc, wFork>>
          ELSE /\ mSendOps2_' = [mSendOps2_ EXCEPT ![f] = Append(@, id)]
               /\ mSendBuffers_' = Append(mSendBuffers_, f)
               /\ IF mSendStatus = "Idle"
                  THEN /\ mSendStatus' = "InUse"
                       /\ ops' = [ops EXCEPT ![id] =
                                    [op EXCEPT !.st = "queued", !.inProgress = TRUE]]
                       /\ wPc' = "begin"
                       /\ wFork' = f
                  ELSE /\ ops' = [ops EXCEPT ![id] = [op EXCEPT !.st = "queued"]]
                       /\ UNCHANGED <<mSendStatus, wPc, wFork>>
    /\ UNCHANGED <<mInitiated, mClosed, mEC, sendSrcLive, sendTokGen, stopReq,
                   flushes, numFlush, wEc, wOp, wData, wBuf, wTok,
                   restoreBuffer, wire, recvVars>>
    /\ UNCHANGED <<lifeVars, slotVars, lockVars, cbVars, seqVars>>

(***************************************************************************)
(* The stop callback of a SendOperation2.                                  *)
(***************************************************************************)
\* an erase of every entry of the slot in place of the one that std::find gives
EraseSlotEvery(queue, f) == SelectSeq(queue, LAMBDA x : x # f)

\* queue.erase(std::find(queue.begin(), queue.end(), mSlot))
EraseSlot(queue, f) == RemoveAt(queue, FindFirst(queue, f))

\* an erase of the front of the queue in place of mSelfIter
EraseFront(q, id) == Tail(q)

\* mSlot->mSendOps2_.erase(mSelfIter)
EraseSelf(q, id) == RemoveAt(q, FindFirst(q, id))

\* a callback that completes the op whether or not a task has taken it
CancelCompletesAlways(inProgress) == TRUE

\* if (mInProgress == false): the callback completes the op itself
CancelCompletes(inProgress) == inProgress = FALSE

\* a callback that finds no stop source to take
StopPossibleNever(live) == FALSE

\* else if (s.mSendCancelSrc.stop_possible()): the source has not been moved from
StopPossible(live) == live

\* the part of the callback that runs under the mutex
CancelSend(id) ==
    /\ dtor = "none"
    /\ ops[id].kind = "send"
    /\ ops[id].st = "queued"
    /\ ops[id].cb = "idle"
    /\ LET f == ops[id].fork IN
       IF CancelCompletes(ops[id].inProgress)
       THEN /\ ops' = [SettleOp(ops, id, "aborted") EXCEPT ![id].cb = "done"]
            /\ flushes' = SettleFlush(flushes, ops, id)
            /\ mSendBuffers_' = EraseSlot(mSendBuffers_, f)
            /\ mSendOps2_' = [mSendOps2_ EXCEPT ![f] = EraseSelf(@, id)]
            /\ mSendStatus' = IF Len(mSendBuffers_') = 0 THEN "Idle" ELSE mSendStatus
            /\ UNCHANGED sendSrcLive
       ELSE /\ IF StopPossible(sendSrcLive)
               THEN /\ ops' = [ops EXCEPT ![id].cb = "stop", ![id].cbGen = sendTokGen]
                    /\ sendSrcLive' = FALSE
               ELSE /\ ops' = [ops EXCEPT ![id].cb = "done"]
                    /\ UNCHANGED sendSrcLive
            /\ UNCHANGED <<flushes, mSendBuffers_, mSendOps2_, mSendStatus>>
    /\ UNCHANGED <<numOps, mInitiated, mClosed, mEC, sendTokGen, stopReq, numFlush,
                   wPc, wEc, wFork, wOp, wData, wBuf, wTok, restoreBuffer, wire,
                   recvVars>>
    /\ UNCHANGED <<lifeVars, slotVars, lockVars, cbVars, seqVars>>

\* after the mutex is released: cancelSrc.request_stop()
CancelStop(id) ==
    /\ dtor = "none"
    /\ ops[id].kind = "send"
    /\ ops[id].cb = "stop"
    /\ stopReq' = stopReq \cup {ops[id].cbGen}
    /\ ops' = [ops EXCEPT ![id].cb = "done"]
    /\ UNCHANGED <<numOps, mSendOps2_, mSendBuffers_, mSendStatus, mInitiated,
                   mClosed, mEC, sendSrcLive, sendTokGen, flushes, numFlush,
                   wPc, wEc, wFork, wOp, wData, wBuf, wTok, restoreBuffer, wire,
                   recvVars>>
    /\ UNCHANGED <<lifeVars, slotVars, lockVars, cbVars, seqVars>>

(***************************************************************************)
(* close(), as far as the two halves' queues are concerned.                *)
(***************************************************************************)
EmptyQueues == [f \in Forks |-> <<>>]

\* an error that closes the scheduler: any but a cancellation
IsError(ec) == ec \notin {"ok", "aborted"}

\* NextSendOp / anyRecvOp call resetSendToken / resetRecvToken when a stop callback
\* has taken the scheduler's stop source: the next transfer gets a fresh token
RenewStop(ec, live) == ~live

\* close() that hands closeSock to every caller
CloseSockEach(closed) == 1

\* close(cbs, caller, closeSock, ec, lock): closeSock is set for the caller that finds
\* the scheduler open, and that caller then runs mCloseSock(): sock->close()
CloseSock(closed) == IF closed THEN 0 ELSE 1

\* close() that records the error of every call
FirstErrorLatest(first, ec) == ec

\* close(): the error kept in mEC is the first one
FirstError(first, ec) == IF first = "ok" THEN ec ELSE first

(***************************************************************************)
(* The writer task, makeSendTask.                                          *)
(*   wPc = "parked"  suspended in NextSendOp, nothing to send              *)
(*         "begin"   resumed by NextSendOp, about to look at its op        *)
(*         "restore" | "meta" | "header" | "body"                          *)
(*                   suspended in sock->send(buffer, mSendToken)           *)
(*         "next"    about to co_await NextSendOp(this, ec)                *)
(***************************************************************************)
IoStages == {"restore", "meta", "header", "body"}

\* a writer that never announces the slot
FirstStageHeader(f) == "header"

\* if (slot->mInitiated == false) ... : the first write of a frame
FirstStage(f) == IF mInitiated[f] = FALSE THEN "meta" ELSE "header"

\* the buffer handed to sock->send() at each stage
StageBuf(stage, f, o, data) ==
    CASE stage = "restore" -> restoreBuffer
      [] stage = "meta"    -> MetaFrame(f)
      [] stage = "header"  -> HeaderOf(f, o, Len(data))
      [] stage = "body"    -> data
      [] OTHER             -> <<>>

\* RestoreAfter without the restoreBuffer.clear() that follows a completed drain
RestoreAfterNoClear(stage, ec, bt, buf, data, rb) ==
    CASE stage = "restore" ->
            IF ec = "aborted" THEN Drop(buf, bt) ELSE rb
      [] stage = "meta" ->
            IF ec = "aborted" /\ bt > 0 THEN rb \o Drop(buf, bt) ELSE rb
      [] stage = "header" ->
            IF ec = "aborted" /\ bt > 0 THEN rb \o Drop(buf, bt) \o data ELSE rb
      [] stage = "body" ->
            IF ec = "aborted" /\ bt > 0 THEN rb \o Drop(buf, bt) ELSE rb
      [] OTHER -> rb

\* what the writer leaves in restoreBuffer after a write of buf that moved bt words
RestoreAfter(stage, ec, bt, buf, data, rb) ==
    CASE stage = "restore" ->
            IF ec = "aborted" THEN Drop(buf, bt)
            ELSE IF ec # "ok" THEN rb
            ELSE <<>>
      [] stage = "meta" ->
            IF ec = "aborted" /\ bt > 0 THEN rb \o Drop(buf, bt) ELSE rb
      [] stage = "header" ->
            IF ec = "aborted" /\ bt > 0 THEN rb \o Drop(buf, bt) \o data ELSE rb
      [] stage = "body" ->
            IF ec = "aborted" /\ bt > 0 THEN rb \o Drop(buf, bt) ELSE rb
      [] OTHER -> rb

\* the stage that follows a write that ended with ec
StageAfter(stage, ec, f) ==
    IF ec # "ok" THEN "next"
    ELSE CASE stage = "restore" -> FirstStage(f)
           [] stage = "meta"    -> "header"
           [] stage = "header"  -> "body"
           [] OTHER             -> "next"

\* slot = *iter; op = &slot->mSendOps2_.front(); data = op->mSendBuff.asSpan();
\* then the first write: the restore buffer if it holds anything, else the frame
WriterBegin ==
    /\ dtor = "none"
    /\ wPc = "begin"
    /\ mSendOps2_[wFork] # <<>>
    /\ LET o == Head(mSendOps2_[wFork])
           data == PayloadOf(wFork, o, ops[o].size)
           stage == IF restoreBuffer # <<>> THEN "restore" ELSE FirstStage(wFork)
       IN
       /\ wOp' = o
       /\ wData' = data
       /\ wPc' = stage
       /\ wBuf' = StageBuf(stage, wFork, o, data)
       /\ wTok' = sendTokGen
       /\ mInitiated' = IF stage = "meta"
                        THEN [mInitiated EXCEPT ![wFork] = TRUE]
                        ELSE mInitiated
    /\ UNCHANGED <<sharedVars, mSendOps2_, mSendBuffers_, mSendStatus,
                   sendSrcLive, sendTokGen, stopReq, wEc, wFork,
                   restoreBuffer, wire, recvVars>>
    /\ UNCHANGED <<lifeVars, slotVars, lockVars, cbVars, seqVars>>

\* sock->send(buffer, mSendToken) returns (ec, bt)
WriterIo(ec, bt) ==
    /\ dtor = "none"
    /\ wPc \in IoStages
    /\ \/ ec = "ok" /\ bt = Len(wBuf)
       \/ ec = "aborted" /\ wTok \in stopReq /\ bt < Len(wBuf)
       \/ IsError(ec) /\ bt < Len(wBuf)
    /\ LET stage == StageAfter(wPc, ec, wFork) IN
       /\ wire' = wire \o Take(wBuf, bt)
       /\ wEc' = ec
       /\ restoreBuffer' = RestoreAfter(wPc, ec, bt, wBuf, wData, restoreBuffer)
       /\ wPc' = stage
       /\ wBuf' = StageBuf(stage, wFork, wOp, wData)
       /\ wTok' = IF stage \in IoStages THEN sendTokGen ELSE wTok
       /\ mInitiated' = IF stage = "meta"
                        THEN [mInitiated EXCEPT ![wFork] = TRUE]
                        ELSE mInitiated
    /\ UNCHANGED <<sharedVars, mSendOps2_, mSendBuffers_, mSendStatus,
                   sendSrcLive, sendTokGen, stopReq, wFork, wOp, wData, recvVars>>
    /\ UNCHANGED <<lifeVars, slotVars, lockVars, cbVars, seqVars>>

\* NextSendOp: the op at the head of the head slot is settled with ec and popped
\* (nothing is, if closeFork has failed the op meanwhile); a stop source that was
\* taken is renewed, an error other than an abort closes the scheduler; the next head op, if any, becomes
\* the one in progress
WriterNext ==
    /\ dtor = "none"
    /\ wPc = "next"
    /\ IF mClosed
       THEN /\ wPc' = "parked"
            /\ sockCloses' = sockCloses
                              + (IF IsError(wEc) THEN CloseSock(mClosed) ELSE 0)
            /\ mEC' = IF IsError(wEc) THEN FirstError(mEC, wEc) ELSE mEC
            /\ UNCHANGED <<ops, flushes, mClosed, mSendBuffers_, mSendOps2_,
                           mSendStatus, sendSrcLive, sendTokGen, wFork,
                           mRecvOps2_, mNumRecvs, mRecvStatus, rPc>>
       ELSE
       LET gone == ops[wOp].st # "queued" IN
       /\ gone \/ (mSendBuffers_ # <<>> /\ mSendOps2_[Head(mSendBuffers_)] # <<>>)
       /\ LET hf   == Head(mSendBuffers_)
              id   == Head(mSendOps2_[hf])
              ops1 == IF gone THEN ops ELSE SettleOp(ops, id, wEc)
              fl1  == IF gone THEN flushes ELSE SettleFlush(flushes, ops, id)
              q1   == IF gone THEN mSendBuffers_ ELSE Tail(mSendBuffers_)
              so1  == IF gone THEN mSendOps2_ ELSE [mSendOps2_ EXCEPT ![hf] = Tail(@)]
          IN
          IF IsError(wEc)
          THEN /\ mEC' = FirstError(mEC, wEc)
               /\ mClosed' = TRUE
               /\ sockCloses' = sockCloses + CloseSock(mClosed)
               /\ ops' = CloseOps(ops1, mEC')
               /\ flushes' = CloseFlush(fl1, ops1)
               /\ mSendBuffers_' = <<>>
               /\ mSendOps2_' = EmptyQueues
               /\ mSendStatus' = "Closed"
               /\ wPc' = "parked"
               /\ mRecvOps2_' = EmptyQueues
               /\ mNumRecvs' = 0
               /\ mRecvStatus' = "Closed"
               /\ rPc' = IF rPc = "waitslot" THEN "gotslot" ELSE rPc
               /\ UNCHANGED <<sendSrcLive, sendTokGen, wFork>>
          ELSE /\ flushes' = fl1
               /\ mSendBuffers_' = q1
               /\ mSendOps2_' = so1
               /\ IF RenewStop(wEc, sendSrcLive)
                  THEN sendSrcLive' = TRUE /\ sendTokGen' = sendTokGen + 1
                  ELSE UNCHANGED <<sendSrcLive, sendTokGen>>
               /\ IF q1 # <<>>
                  THEN /\ ops' = [ops1 EXCEPT ![Head(so1[Head(q1)])].inProgress = TRUE]
                       /\ wFork' = Head(q1)
                       /\ wPc' = "begin"
                       /\ UNCHANGED mSendStatus
                  ELSE /\ ops' = ops1
                       /\ mSendStatus' = "Idle"
                       /\ wPc' = "parked"
                       /\ UNCHANGED wFork
               /\ UNCHANGED <<mClosed, mEC, sockCloses,
                              mRecvOps2_, mNumRecvs, mRecvStatus, rPc>>
    /\ UNCHANGED <<numOps, numFlush, mInitiated, stopReq, wEc, wOp, wData, wBuf,
                   wTok, restoreBuffer, wire,
                   mRequestedRecvSlot, mRemoteSlotMapping_, mHaveRecvHeader,
                   mRecvHeader, recvSrcLive, recvTokGen, recvStopReq,
                   rEc, rFork, rOp, rBufLen, rTok, restoreReadSize,
                   inStream, rdPos, delivered, peerSeen, numPeerFrames>>
    /\ UNCHANGED <<dtor, slotVars, lockVars, cbVars, seqVars>>

(***************************************************************************)
(* The peer.  It runs the same writer; here it writes whole frames, a      *)
(* NewSlot frame before the first data frame of each fork.  Its slot-ids   *)
(* differ from the local ones, and its payload words may hold any value a  *)
(* header word can hold.                                                   *)
(***************************************************************************)
WordVals == 0..(SidWord(NumForks) + MaxPayload)

PayloadVals == {NumForks}

\* the peer's Slot::mLocalId for fork f
PeerId(f) == NumForks + 1 - f

PeerMeta(f) ==
    <<Word(0, "M", f, 0, 1), Word(PeerId(f), "M", f, 0, 2)>>
    \o [i \in 1..CtrlBlkWords |-> Word(SidWord(f), "M", f, 0, HeaderWords + i)]

\* the k-th data frame of the peer: n words of value v on fork f
PeerFrame(f, k, n, v) ==
    <<Word(n, "H", f, k, 1), Word(PeerId(f), "H", f, k, 2)>>
    \o [i \in 1..n |-> Word(v, "P", f, k, i)]

\* the peer writes its next frame; the model lets it do so when the reader has
\* asked for more than the stream holds
PeerSend(f, n, v) ==
    /\ numPeerFrames < MaxPeerFrames
    /\ rPc \in {"restore", "header", "meta", "payload"}
    /\ Len(inStream) - rdPos < rBufLen
    /\ inStream' = inStream
                   \o (IF f \in peerSeen THEN <<>> ELSE PeerMeta(f))
                   \o PeerFrame(f, numPeerFrames + 1, n, v)
    /\ peerSeen' = peerSeen \cup {f}
    /\ numPeerFrames' = numPeerFrames + 1
    /\ UNCHANGED <<sharedVars, sendVars, mRecvOps2_, mNumRecvs, mRecvStatus,
                   mRequestedRecvSlot, mRemoteSlotMapping_, mHaveRecvHeader,
                   mRecvHeader, recvSrcLive, recvTokGen, recvStopReq,
                   rPc, rEc, rFork, rOp, rBufLen, rTok, restoreReadSize,
                   rdPos, delivered>>
    /\ UNCHANGED <<lifeVars, slotVars, lockVars, cbVars, seqVars>>

(***************************************************************************)
(* recv(): the op is appended to its slot's queue; an idle receive half is *)
(* armed, and a reader that waits for a recv on this very slot is resumed. *)
(***************************************************************************)
Recv(f, n) ==
    /\ dtor = "none"
    /\ numOps < MaxOps
    /\ LET id == numOps + 1
           op == [NoOp EXCEPT !.kind = "recv", !.fork = f, !.size = n]
       IN
       /\ numOps' = id
       /\ IF mClosed
          THEN /\ ops' = [ops EXCEPT ![id] =
                            [op EXCEPT !.st = "done", !.res = mEC, !.resumed = 1]]
               /\ UNCHANGED <<mRecvOps2_, mNumRecvs, mRecvStatus, rPc, rFork>>
          ELSE /\ mRecvOps2_' = [mRecvOps2_ EXCEPT ![f] = Append(@, id)]
               /\ mNumRecvs' = mNumRecvs + 1
               /\ IF mRecvStatus = "Idle"
                  THEN /\ mRecvStatus' = "InUse"
                       /\ ops' = [ops EXCEPT ![id] = [op EXCEPT !.st = "queued"]]
                       /\ rPc' = CASE rPc = "parked"   -> "begin"
                                   [] rPc = "waitslot" -> "gotslot"
                                   [] OTHER            -> rPc
                       /\ rFork' = IF rPc = "waitslot" THEN mRequestedRecvSlot ELSE rFork
                  ELSE IF mRecvStatus = "RequestedRecvOp" /\ mRequestedRecvSlot = f
                  THEN /\ mRecvStatus' = "InUse"
                       /\ ops' = [ops EXCEPT ![id] =
                                    [op EXCEPT !.st = "queued", !.inProgress = TRUE]]
                       /\ rPc' = "gotslot"
                       /\ rFork' = f
                  ELSE /\ ops' = [ops EXCEPT ![id] = [op EXCEPT !.st = "queued"]]
                       /\ UNCHANGED <<mRecvStatus, rPc, rFork>>
    /\ UNCHANGED <<flushes, numFlush, mClosed, mEC, sendVars,
                   mRequestedRecvSlot, mRemoteSlotMapping_, mHaveRecvHeader,
                   mRecvHeader, recvSrcLive, recvTokGen, recvStopReq,
                   rEc, rOp, rBufLen, rTok, restoreReadSize,
                   inStream, rdPos, delivered, peerSeen, numPeerFrames>>
    /\ UNCHANGED <<lifeVars, slotVars, lockVars, cbVars, seqVars>>

(***************************************************************************)
(* The stop callback of a RecvOperation2.                                  *)
(***************************************************************************)
\* the part of the callback that runs under the mutex
CancelRecv(id) ==
    /\ dtor = "none"
    /\ ops[id].kind = "recv"
    /\ ops[id].st = "queued"
    /\ ops[id].cb = "idle"
    /\ LET f == ops[id].fork IN
       IF CancelCompletes(ops[id].inProgress)
       THEN /\ ops' = [SettleOp(ops, id, "aborted") EXCEPT ![id].cb = "done"]
            /\ flushes' = SettleFlush(flushes, ops, id)
            /\ mRecvOps2_' = [mRecvOps2_ EXCEPT ![f] = EraseSelf(@, id)]
            /\ mNumRecvs' = mNumRecvs - 1
            /\ mRecvStatus' = IF mNumRecvs' = 0 THEN "Idle" ELSE mRecvStatus
            /\ UNCHANGED recvSrcLive
       ELSE /\ IF StopPossible(recvSrcLive)
               THEN /\ ops' = [ops EXCEPT ![id].cb = "stop", ![id].cbGen = recvTokGen]
                    /\ recvSrcLive' = FALSE
               ELSE /\ ops' = [ops EXCEPT ![id].cb = "done"]
                    /\ UNCHANGED recvSrcLive
            /\ UNCHANGED <<flushes, mRecvOps2_, mNumRecvs, mRecvStatus>>
    /\ UNCHANGED <<numOps, numFlush, mClosed, mEC, sendVars,
                   mRequestedRecvSlot, mRemoteSlotMapping_, mHaveRecvHeader,
                   mRecvHeader, recvTokGen, recvStopReq,
                   rPc, rEc, rFork, rOp, rBufLen, rTok, restoreReadSize,
                   inStream, rdPos, delivered, peerSeen, numPeerFrames>>
    /\ UNCHANGED <<lifeVars, slotVars, lockVars, cbVars, seqVars>>

\* after the mutex is released: cancelSrc.request_stop()
CancelRecvStop(id) ==
    /\ dtor = "none"
    /\ ops[id].kind = "recv"
    /\ ops[id].cb = "stop"
    /\ recvStopReq' = recvStopReq \cup {ops[id].cbGen}
    /\ ops' = [ops EXCEPT ![id].cb = "done"]
    /\ UNCHANGED <<numOps, flushes, numFlush, mClosed, mEC, sendVars,
                   mRecvOps2_, mNumRecvs, mRecvStatus,
                   mRequestedRecvSlot, mRemoteSlotMapping_, mHaveRecvHeader,
                   mRecvHeader, recvSrcLive, recvTokGen,
                   rPc, rEc, rFork, rOp, rBufLen, rTok, restoreReadSize,
                   inStream, rdPos, delivered, peerSeen, numPeerFrames>>
    /\ UNCHANGED <<lifeVars, slotVars, lockVars, cbVars, seqVars>>

(***************************************************************************)
(* The reader task, receiveDataTask.                                       *)
(*   rPc = "parked"   suspended in anyRecvOp, no recv pending              *)
(*         "begin"    resumed by anyRecvOp                                 *)
(*         "restore" | "header" | "meta" | "payload"                       *)
(*                    suspended in sock->recv(buffer)                      *)
(*         "getslot"  about to co_await getRequestedRecvSlot               *)
(*         "waitslot" suspended in getRequestedRecvSlot                    *)
(*         "gotslot"  resumed by getRequestedRecvSlot                      *)
(*         "next"     about to co_await anyRecvOp(this, ec)                *)
(*         "ub"       front() of an empty queue was dereferenced           *)
(***************************************************************************)
RecvIoStages == {"restore", "header", "meta", "payload"}

\* mRecvControlBlock.getSessionID(): the fork whose SessionID the block holds,
\* -1 for a SessionID no local fork has
GetSessionID(w) ==
    IF \E f \in Forks : \A i \in 1..Len(w) : w[i].val = SidWord(f)
    THEN CHOOSE f \in Forks : \A i \in 1..Len(w) : w[i].val = SidWord(f)
    ELSE -1

\* initRemoteSlot: a slot-id or a SessionID that is already bound is refused
InitRemoteSlotEc(map, slotId, f) ==
    IF map[slotId] # 0 \/ (\E v \in WordVals : map[v] = f /\ f \in Forks)
    THEN "badCoprotoMessageHeader"
    ELSE "ok"

InitRemoteSlot(map, slotId, f) ==
    IF InitRemoteSlotEc(map, slotId, f) = "ok"
    THEN [map EXCEPT ![slotId] = f]
    ELSE map

\* what a read of len words that moved bt of them leaves in restoreReadSize
RestoreReadSizeAfter(stage, ec, bt, len, r) ==
    IF stage = "payload" /\ ec = "aborted" THEN len - bt ELSE r

\* if (restoreReadSize) ... while (!mHaveRecvHeader) ... : the first read of a turn
ReaderBegin ==
    /\ dtor = "none"
    /\ rPc = "begin"
    /\ IF restoreReadSize > 0
       THEN rPc' = "restore" /\ rBufLen' = restoreReadSize
       ELSE IF ~mHaveRecvHeader
       THEN rPc' = "header" /\ rBufLen' = HeaderWords
       ELSE rPc' = "getslot" /\ UNCHANGED rBufLen
    /\ UNCHANGED <<sharedVars, sendVars, mRecvOps2_, mNumRecvs, mRecvStatus,
                   mRequestedRecvSlot, mRemoteSlotMapping_, mHaveRecvHeader,
                   mRecvHeader, recvSrcLive, recvTokGen, recvStopReq,
                   rEc, rFork, rOp, rTok, restoreReadSize,
                   inStream, rdPos, delivered, peerSeen, numPeerFrames>>
    /\ UNCHANGED <<lifeVars, slotVars, lockVars, cbVars, seqVars>>

\* sock->recv(buffer) or sock->recv(buffer, mRecvToken) returns (ec, bt)
ReaderIo(ec, bt) ==
    /\ dtor = "none"
    /\ rPc \in RecvIoStages
    /\ bt <= Len(inStream) - rdPos
    /\ \/ ec = "ok" /\ bt = rBufLen
       \/ ec = "aborted" /\ rPc = "payload" /\ rTok \in recvStopReq /\ bt < rBufLen
       \/ IsError(ec) /\ bt < rBufLen
    /\ LET w   == SubSeq(inStream, rdPos + 1, rdPos + bt)
           hdr == <<w[1].val, w[2].val>>
           sid == GetSessionID(w)
           iec == InitRemoteSlotEc(mRemoteSlotMapping_, mRecvHeader[2], sid)
       IN
       /\ rdPos' = rdPos + bt
       /\ delivered' = IF rPc = "payload"
                       THEN [delivered EXCEPT ![rOp] = @ \o w]
                       ELSE delivered
       /\ restoreReadSize' = RestoreReadSizeAfter(rPc, ec, bt, rBufLen, restoreReadSize)
       /\ IF ec # "ok"
          THEN /\ rEc' = ec
               /\ rPc' = "next"
               /\ UNCHANGED <<mRecvHeader, mHaveRecvHeader, mRemoteSlotMapping_, rBufLen>>
          ELSE CASE rPc = "restore" ->
                    /\ rEc' = ec
                    /\ IF ~mHaveRecvHeader
                       THEN rPc' = "header" /\ rBufLen' = HeaderWords
                       ELSE rPc' = "getslot" /\ UNCHANGED rBufLen
                    /\ UNCHANGED <<mRecvHeader, mHaveRecvHeader, mRemoteSlotMapping_>>
                 [] rPc = "header" ->
                    /\ rEc' = ec
                    /\ mRecvHeader' = hdr
                    /\ IF hdr[1] = 0
                       THEN /\ rPc' = "meta"
                            /\ rBufLen' = CtrlBlkWords
                            /\ UNCHANGED mHaveRecvHeader
                       ELSE /\ mHaveRecvHeader' = TRUE
                            /\ rPc' = "getslot"
                            /\ UNCHANGED rBufLen
                    /\ UNCHANGED mRemoteSlotMapping_
                 [] rPc = "meta" ->
                    /\ rEc' = iec
                    /\ mRemoteSlotMapping_' =
                          InitRemoteSlot(mRemoteSlotMapping_, mRecvHeader[2], sid)
                    /\ IF iec = "ok"
                       THEN rPc' = "header" /\ rBufLen' = HeaderWords
                       ELSE rPc' = "next" /\ UNCHANGED rBufLen
                    /\ UNCHANGED <<mRecvHeader, mHaveRecvHeader>>
                 [] OTHER ->
                    /\ rEc' = ec
                    /\ rPc' = "next"
                    /\ UNCHANGED <<mRecvHeader, mHaveRecvHeader,
                                   mRemoteSlotMapping_, rBufLen>>
    /\ UNCHANGED <<sharedVars, sendVars, mRecvOps2_, mNumRecvs, mRecvStatus,
                   mRequestedRecvSlot, recvSrcLive, recvTokGen, recvStopReq,
                   rFork, rOp, rTok, inStream, peerSeen, numPeerFrames>>
    /\ UNCHANGED <<lifeVars, slotVars, lockVars, cbVars, seqVars>>

\* getRequestedRecvSlot: the slot the header names; with no recv queued on it
\* the reader parks until one is posted
ReaderGetSlot ==
    /\ dtor = "none"
    /\ rPc = "getslot"
    /\ LET f == mRemoteSlotMapping_[mRecvHeader[2]] IN
       IF mClosed \/ f = 0
       THEN /\ rPc' = "gotslot"
            /\ rFork' = 0
            /\ UNCHANGED <<ops, mRecvStatus, mRequestedRecvSlot>>
       ELSE IF f \in Forks /\ mRecvOps2_[f] # <<>>
       THEN /\ rPc' = "gotslot"
            /\ rFork' = f
            /\ ops' = [ops EXCEPT ![Head(mRecvOps2_[f])].inProgress = TRUE]
            /\ UNCHANGED <<mRecvStatus, mRequestedRecvSlot>>
       ELSE /\ rPc' = "waitslot"
            /\ mRecvStatus' = "RequestedRecvOp"
            /\ mRequestedRecvSlot' = f
            /\ UNCHANGED <<ops, rFork>>
    /\ UNCHANGED <<numOps, flushes, numFlush, mClosed, mEC, sendVars,
                   mRecvOps2_, mNumRecvs, mRemoteSlotMapping_, mHaveRecvHeader,
                   mRecvHeader, recvSrcLive, recvTokGen, recvStopReq,
                   rEc, rOp, rBufLen, rTok, restoreReadSize,
                   inStream, rdPos, delivered, peerSeen, numPeerFrames>>
    /\ UNCHANGED <<lifeVars, slotVars, lockVars, cbVars, seqVars>>

\* a reader that takes every header for one of a bound slot
NoSlotNever(iter) == FALSE

\* if (!iter): getRequestedRecvSlot found no slot for the slot-id of the header
NoSlot(iter) == iter = 0

\* mHaveRecvHeader = false; ... op = &slot->mRecvOps2_.front(); the size check;
\* then the read of the payload into the op's buffer
ReaderGotSlot ==
    /\ dtor = "none"
    /\ rPc = "gotslot"
    /\ mHaveRecvHeader' = FALSE
    /\ IF mClosed
       THEN rEc' = "closed" /\ rPc' = "next" /\ UNCHANGED <<rOp, rBufLen, rTok>>
       ELSE IF NoSlot(rFork)
       THEN /\ rEc' = "badCoprotoMessageHeader"
            /\ rPc' = "next"
            /\ UNCHANGED <<rOp, rBufLen, rTok>>
       ELSE IF rFork \notin Forks \/ mRecvOps2_[rFork] = <<>>
       THEN rPc' = "ub" /\ UNCHANGED <<rEc, rOp, rBufLen, rTok>>
       ELSE LET o == Head(mRecvOps2_[rFork]) IN
            /\ rOp' = o
            /\ IF ops[o].size # mRecvHeader[1]
               THEN rEc' = "cancel" /\ rPc' = "next" /\ UNCHANGED <<rBufLen, rTok>>
               ELSE /\ rPc' = "payload"
                    /\ rBufLen' = mRecvHeader[1]
                    /\ rTok' = recvTokGen
                    /\ UNCHANGED rEc
    /\ UNCHANGED <<sharedVars, sendVars, mRecvOps2_, mNumRecvs, mRecvStatus,
                   mRequestedRecvSlot, mRemoteSlotMapping_,
                   mRecvHeader, recvSrcLive, recvTokGen, recvStopReq,
                   rFork, restoreReadSize,
                   inStream, rdPos, delivered, peerSeen, numPeerFrames>>
    /\ UNCHANGED <<lifeVars, slotVars, lockVars, cbVars, seqVars>>

\* anyRecvOp: the op in progress, if any, is settled with ec and popped; a stop
\* source that was taken is renewed, an error other than an abort closes the
\* scheduler; the reader goes
\* on if a recv is pending and parks otherwise
ReaderNext ==
    /\ dtor = "none"
    /\ rPc = "next"
    /\ IF mClosed
       THEN /\ rPc' = "parked"
            /\ sockCloses' = sockCloses
                              + (IF IsError(rEc) THEN CloseSock(mClosed) ELSE 0)
            /\ mEC' = IF IsError(rEc) THEN FirstError(mEC, rEc) ELSE mEC
            /\ UNCHANGED <<ops, flushes, mClosed, mRecvOps2_, mNumRecvs,
                           mRecvStatus, recvSrcLive, recvTokGen,
                           mSendBuffers_, mSendOps2_, mSendStatus>>
       ELSE
       LET inprog == /\ rFork \in Forks
                     /\ mRecvOps2_[rFork] # <<>>
                     /\ ops[Head(mRecvOps2_[rFork])].inProgress
           id   == Head(mRecvOps2_[rFork])
           ops1 == IF inprog THEN SettleOp(ops, id, rEc) ELSE ops
           fl1  == IF inprog THEN SettleFlush(flushes, ops, id) ELSE flushes
           rq1  == IF inprog THEN [mRecvOps2_ EXCEPT ![rFork] = Tail(@)]
                   ELSE mRecvOps2_
           n1   == IF inprog THEN mNumRecvs - 1 ELSE mNumRecvs
       IN
       IF IsError(rEc)
       THEN /\ mEC' = FirstError(mEC, rEc)
            /\ mClosed' = TRUE
            /\ sockCloses' = sockCloses + CloseSock(mClosed)
            /\ ops' = CloseOps(ops1, mEC')
            /\ flushes' = CloseFlush(fl1, ops1)
            /\ mRecvOps2_' = EmptyQueues
            /\ mNumRecvs' = 0
            /\ mRecvStatus' = "Closed"
            /\ rPc' = "parked"
            /\ mSendBuffers_' = <<>>
            /\ mSendOps2_' = EmptyQueues
            /\ mSendStatus' = "Closed"
            /\ UNCHANGED <<recvSrcLive, recvTokGen>>
       ELSE /\ ops' = ops1
            /\ flushes' = fl1
            /\ mRecvOps2_' = rq1
            /\ mNumRecvs' = n1
            /\ IF RenewStop(rEc, recvSrcLive)
               THEN recvSrcLive' = TRUE /\ recvTokGen' = recvTokGen + 1
               ELSE UNCHANGED <<recvSrcLive, recvTokGen>>
            /\ IF n1 = 0
               THEN mRecvStatus' = "Idle" /\ rPc' = "parked"
               ELSE mRecvStatus' = "InUse" /\ rPc' = "begin"
            /\ UNCHANGED <<mClosed, mEC, sockCloses,
                           mSendBuffers_, mSendOps2_, mSendStatus>>
    /\ UNCHANGED <<numOps, numFlush, mInitiated, sendSrcLive, sendTokGen, stopReq,
                   wPc, wEc, wFork, wOp, wData, wBuf, wTok, restoreBuffer, wire,
                   mRequestedRecvSlot, mRemoteSlotMapping_, mHaveRecvHeader,
                   mRecvHeader, recvStopReq,
                   rEc, rFork, rOp, rBufLen, rTok, restoreReadSize,
                   inStream, rdPos, delivered, peerSeen, numPeerFrames>>
    /\ UNCHANGED <<dtor, slotVars, lockVars, cbVars, seqVars>>

(***************************************************************************)
(* flush(): a FlushToken is attached to every pending op; with nothing     *)
(* pending the caller goes on at once.                                     *)
(***************************************************************************)
Flush ==
    /\ dtor = "none"
    /\ numFlush < MaxFlush
    /\ LET f == numFlush + 1
           pend == Pending(ops)
       IN
       /\ numFlush' = f
       /\ flushes' = [flushes EXCEPT ![f] =
                        [st |-> "called", pending |-> pend,
                         resumed |-> IF pend = {} THEN 1 ELSE 0]]
       /\ ops' = [j \in OpIds |->
                    IF j \in pend THEN [ops[j] EXCEPT !.flushes = @ \cup {f}]
                    ELSE ops[j]]
    /\ UNCHANGED <<numOps, mClosed, mEC, sendVars, recvVars>>
    /\ UNCHANGED <<lifeVars, slotVars, lockVars, cbVars, seqVars>>

(***************************************************************************)
(* close(): the scheduler is closed with the closed error unless an error  *)
(* has closed it before; every pending op is failed with the recorded      *)
(* error and resumed, the stream is closed, and a reader that waits for a  *)
(* recv is resumed.  A task that is in a transfer goes on to its end.      *)
(***************************************************************************)
Close ==
    /\ dtor = "none"
    /\ mEC' = FirstError(mEC, "closed")
    /\ mClosed' = TRUE
    /\ sockCloses' = sockCloses + CloseSock(mClosed)
    /\ ops' = CloseOps(ops, mEC')
    /\ flushes' = CloseFlush(flushes, ops)
    /\ mSendBuffers_' = <<>>
    /\ mSendOps2_' = EmptyQueues
    /\ mSendStatus' = "Closed"
    /\ mRecvOps2_' = EmptyQueues
    /\ mNumRecvs' = 0
    /\ mRecvStatus' = "Closed"
    /\ rPc' = IF rPc = "waitslot" THEN "gotslot" ELSE rPc
    /\ UNCHANGED <<numOps, numFlush, mInitiated, sendSrcLive, sendTokGen, stopReq,
                   wPc, wEc, wFork, wOp, wData, wBuf, wTok, restoreBuffer, wire,
                   mRequestedRecvSlot, mRemoteSlotMapping_, mHaveRecvHeader,
                   mRecvHeader, recvSrcLive, recvTokGen, recvStopReq,
                   rEc, rFork, rOp, rBufLen, rTok, restoreReadSize,
                   inStream, rdPos, delivered, peerSeen, numPeerFrames>>
    /\ UNCHANGED <<dtor, slotVars, lockVars, cbVars, seqVars>>

(***************************************************************************)
(* closeFork(sid): the pending ops of the fork are failed with the closed  *)
(* error and resumed, and the fork leaves the pending-send list.  The      *)
(* model covers a call made while neither task has been resumed for an op  *)
(* of the fork without having looked at it yet.                            *)
(***************************************************************************)
\* the pending ops of fork f
ForkOps(o, f) == {j \in Pending(o) : o[j].fork = f}

\* the erase of one entry of the slot, as the stop callback does it
EraseFirstOf(queue, f) == RemoveAt(queue, FindFirst(queue, f))

\* every entry of the slot leaves the pending-send list
EraseAll(queue, f) == SelectSeq(queue, LAMBDA x : x # f)

CloseForkOps(o, f, r) ==
    [j \in OpIds |-> IF j \in ForkOps(o, f) THEN SettleOp(o, j, r)[j] ELSE o[j]]

\* the flush tokens held by ops of fork f only are resumed
CloseForkFlush(fl, o, f) ==
    [t \in FlushIds |->
        IF /\ \E j \in ForkOps(o, f) : t \in o[j].flushes
           /\ \A j \in Pending(o) : t \in o[j].flushes => o[j].fork = f
        THEN [fl[t] EXCEPT !.resumed = @ + 1]
        ELSE fl[t]]

CloseFork(f) ==
    /\ dtor = "none"
    /\ ~mClosed
    /\ ~(wPc = "begin" /\ wFork = f)
    /\ ~(rPc = "gotslot" /\ rFork = f)
    /\ ops' = CloseForkOps(ops, f, "closed")
    /\ flushes' = CloseForkFlush(flushes, ops, f)
    /\ mSendOps2_' = [mSendOps2_ EXCEPT ![f] = <<>>]
    /\ mSendBuffers_' = EraseAll(mSendBuffers_, f)
    /\ mRecvOps2_' = [mRecvOps2_ EXCEPT ![f] = <<>>]
    /\ mNumRecvs' = mNumRecvs - Len(mRecvOps2_[f])
    /\ mRecvStatus' = IF mNumRecvs' = 0 /\ mRecvStatus = "InUse"
                      THEN "Idle" ELSE mRecvStatus
    /\ UNCHANGED <<numOps, numFlush, mClosed, mEC, mSendStatus, mInitiated,
                   sendSrcLive, sendTokGen, stopReq,
                   wPc, wEc, wFork, wOp, wData, wBuf, wTok, restoreBuffer, wire,
                   mRequestedRecvSlot, mRemoteSlotMapping_, mHaveRecvHeader,
                   mRecvHeader, recvSrcLive, recvTokGen, recvStopReq,
                   rPc, rEc, rFork, rOp, rBufLen, rTok, restoreReadSize,
                   inStream, rdPos, delivered, peerSeen, numPeerFrames>>
    /\ UNCHANGED <<lifeVars, slotVars, lockVars, cbVars, seqVars>>

(***************************************************************************)
(* ~SockScheduler.                                                         *)
(***************************************************************************)
\* if (mRecvStatus == Status::InUse || mSendStatus == Status::InUse) std::terminate()
DtorTerminates(rs, ss) == rs = "InUse" \/ ss = "InUse"

Destroy ==
    /\ dtor = "none"
    /\ dtor' = IF DtorTerminates(mRecvStatus, mSendStatus)
               THEN "terminated" ELSE "returned"
    /\ UNCHANGED <<sharedVars, sendVars, recvVars, sockCloses, slotVars, lockVars, cbVars, seqVars>>

(***************************************************************************)
(* The slots.  A Slot is made the first time its SessionID is looked up,   *)
(* by a local operation or by the binding of a NewSlot frame of the peer,  *)
(* and gets the next local slot-id.  init() makes the Slot of the          *)
(* scheduler's own SessionID.                                              *)
(***************************************************************************)
\* the SessionIDs that are looked up: those of the forks and one more
SlotSessions == 1..(NumForks + 1)

\* the SessionID the scheduler is constructed with
RootSession == 1

\* u32 mLocalId = -1, mRemoteId = -1
NoId == 0 - 1

\* a counter of local slot-ids that starts below one
FirstLocalSlotNone == 1 - 1

\* u32 mNextLocalSlot = 1
FirstLocalSlot == 1

SlotTables == [slots |-> mSlots_, next |-> mNextLocalSlot, ids |-> mIdSlotMapping_]

NoSlots == [slots |-> <<>>, next |-> FirstLocalSlot,
            ids |-> [x \in SlotSessions |-> 0]]

\* getLocalSlot: the Slot of the SessionID, made with the next local slot-id if
\* the SessionID has none
GetLocalSlot(t, x) ==
    IF t.ids[x] # 0
    THEN t
    ELSE [slots |-> Append(t.slots, [mSessionID |-> x, mLocalId |-> t.next,
                                     mRemoteId |-> NoId]),
          next  |-> t.next + 1,
          ids   |-> [t.ids EXCEPT ![x] = Len(t.slots) + 1]]

NoCall == [kind |-> "none", sid |-> 0, id |-> 0, ec |-> "ok"]

(***************************************************************************)
(* The parties that take mMutex.  init() has started both tasks, which are *)
(* suspended in NextSendOp and anyRecvOp; no callback and no call is on    *)
(* its way.                                                                *)
(***************************************************************************)
Tasks == {"writer", "reader"}
Callbacks == {"sendCb", "recvCb"}
LockParties == Tasks \cup Callbacks \cup {"caller"}

LockStart == [p \in LockParties |-> IF p \in Tasks THEN "parked" ELSE "idle"]

\* CBList(): no handle
NoHandle == "none"

(***************************************************************************)
(* The state after construction: init() has started both tasks, which are  *)
(* suspended waiting for a first operation.                                *)
(***************************************************************************)
SchedInit ==
    /\ ops = [j \in OpIds |-> NoOp]
    /\ numOps = 0
    /\ flushes = [f \in FlushIds |-> NoFlush]
    /\ numFlush = 0
    /\ mClosed = FALSE
    /\ mEC = "ok"
    /\ mSendOps2_ = EmptyQueues
    /\ mSendBuffers_ = <<>>
    /\ mSendStatus = "Idle"
    /\ mInitiated = [f \in Forks |-> FALSE]
    /\ sendSrcLive = TRUE
    /\ sendTokGen = 0
    /\ stopReq = {}
    /\ wPc = "parked" /\ wEc = "ok" /\ wFork = 0 /\ wOp = 0
    /\ wData = <<>> /\ wBuf = <<>> /\ wTok = 0
    /\ restoreBuffer = <<>>
    /\ wire = <<>>
    /\ mRecvOps2_ = EmptyQueues
    /\ mNumRecvs = 0
    /\ mRecvStatus = "Idle"
    /\ mRequestedRecvSlot = 0
    /\ mRemoteSlotMapping_ = [v \in WordVals |-> 0]
    /\ mHaveRecvHeader = FALSE
    /\ mRecvHeader = <<0, 0>>
    /\ recvSrcLive = TRUE
    /\ recvTokGen = 0
    /\ recvStopReq = {}
    /\ rPc = "parked" /\ rEc = "ok" /\ rFork = 0 /\ rOp = 0
    /\ rBufLen = 0 /\ rTok = 0
    /\ restoreReadSize = 0
    /\ inStream = <<>>
    /\ rdPos = 0
    /\ delivered = [j \in OpIds |-> <<>>]
    /\ peerSeen = {}
    /\ numPeerFrames = 0
    /\ sockCloses = 0
    /\ dtor = "none"
    /\ LET t == GetLocalSlot(NoSlots, RootSession) IN
       /\ mSlots_ = t.slots
       /\ mNextLocalSlot = t.next
       /\ mIdSlotMapping_ = t.ids
    /\ slotCall = NoCall
    /\ mMutex = "free"
    /\ lockPc = LockStart
    /\ mSize = 0
    /\ mArray = <<>>
    /\ mVec = <<>>
    /\ cbPushed = <<>>
    /\ cbResumed = <<>>
    /\ cbReturned = NoHandle

(***************************************************************************)
(* sequence_mpsc.  Sequence numbers are SeqBits wide and wrap.  Producers  *)
(* claim and publish; waiters call wait_until_published, each resuming     *)
(* from the last value it was given; the consumer barrier is advanced      *)
(* only over sequences every waiter has been given.                        *)
(*   tPc of a producer:                                                    *)
(*     "idle" | "claimwait" | "pub" | "rra_take" | "rra_scan" |            *)
(*     "rra_requeue" | "rra_rescan" | "rra_retake" | "rra_resume"          *)
(*   tPc of a waiter:                                                      *)
(*     "idle" | "aw_push" | "aw_scan" | "aw_take" | "aw_resume" |          *)
(*     "aw_exch" | "parked" | "resumed"                                    *)
(***************************************************************************)
SeqMod == 2 ^ SeqBits

BufferSize == 2 ^ BufferBits

Producers == 1..NumProducers

Waiters == (NumProducers + 1)..(NumProducers + NumWaiters)

Threads == Producers \cup Waiters

Seqs == 0..(SeqMod - 1)

\* SEQUENCE arithmetic
Wrap(x) == x % SeqMod

\* TRAITS::difference: the signed distance from b to a
Difference(a, b) == ((a - b + SeqMod \div 2) % SeqMod) - SeqMod \div 2

\* TRAITS::precedes
Precedes(a, b) == Difference(a, b) < 0

\* std::numeric_limits<diff_t>::max()
MaxDiff == SeqMod \div 2 - 1

\* seq & m_sequenceMask
Index(s) == s % BufferSize

\* slots that start with the sequences after initialSequence
InitialPublishedAhead(i) ==
    [k \in 0..(BufferSize - 1) |->
        CHOOSE s \in {Wrap(i + 1 + d) : d \in 0..(BufferSize - 1)} : Index(s) = k]

\* the constructor's loop: seq = initialSequence - (bufferSize - 1) ... initialSequence
InitialPublished(i) ==
    [k \in 0..(BufferSize - 1) |->
        CHOOSE s \in {Wrap(i + SeqMod - d) : d \in 0..(BufferSize - 1)} : Index(s) = k]

\* last_published_after on the array pub, every load taken at once
RECURSIVE LastPublishedAfter(_, _)
LastPublishedAfter(pub, x) ==
    IF pub[Index(Wrap(x + 1))] = Wrap(x + 1)
    THEN LastPublishedAfter(pub, Wrap(x + 1))
    ELSE x

\* the sequences after x up to y
Between(x, y) == {z \in Seqs : Difference(z, x) > 0 /\ Difference(z, y) <= 0}

\* nullptr; a pointer to an awaiter is the number of its waiter
Null == 0

\* the value of a pointer that has not been written yet
Garbage == 0 - 1

\* the address of the local head of a list, as the value of a tail pointer; the
\* address of the m_next of an awaiter is the number of its waiter
LocalHead == 0

\* no claim operation
NoClaimOp == [kind |-> "none", count |-> 0, m_count |-> 0]

\* the producer holds no claim operation: it has built none, or has awaited or
\* dropped the one it built
HoldsNoClaim(op) == op.kind \in {"none", "awaited", "dropped"}

\* the fields of the sequencer with the array pub
SeqInitFields(i, a, pub) ==
    /\ active = a
    /\ claimOp = [p \in Producers |-> NoClaimOp]
    /\ initialSequence = i
    /\ m_published = pub
    /\ m_nextToClaim = Wrap(i + 1)
    /\ m_awaiters = <<>>
    /\ barrier = i
    /\ publishedByCall = {}
    /\ claimLog = <<>>
    /\ tPc = [t \in Threads |-> "idle"]
    /\ claimedRange = [p \in Producers |-> <<0, 0>>]
    /\ pubQ = [p \in Producers |-> <<>>]
    /\ m_targetSequence = [w \in Waiters |-> i]
    /\ m_lastKnownPublished = [w \in Waiters |-> i]
    /\ m_readyToResume = [w \in Waiters |-> FALSE]
    /\ retVal = [w \in Waiters |-> i]
    /\ known = [w \in Waiters |-> i]
    /\ lAwaiters = [t \in Threads |-> <<>>]
    /\ lToResume = [t \in Threads |-> <<>>]
    /\ lToRequeue = [t \in Threads |-> <<>>]
    /\ lLkp = [t \in Threads |-> 0]
    /\ lTarget = [t \in Threads |-> 0]
    /\ lSeq = [t \in Threads |-> 0]
    /\ m_next = [w \in Waiters |-> Garbage]
    /\ m_awaitersHead = Null
    /\ awaiters = [t \in Threads |-> Garbage]
    /\ awaitersToResume = [t \in Threads |-> Garbage]
    /\ awaitersToResumeTail = [t \in Threads |-> LocalHead]
    /\ awaitersToRequeue = [t \in Threads |-> Garbage]
    /\ awaitersToRequeueTail = [t \in Threads |-> LocalHead]
    /\ oldHead = [t \in Threads |-> Garbage]

\* the sequencer after construction with the array pub
SeqInitArray(i, a, pub) ==
    /\ SeqInitFields(i, a, pub)
    /\ ctorPc = "built"
    /\ ctorSeq = Wrap(i + 1)
    /\ ctorStores = <<>>
    /\ ctorRet = i

SeqInitWith(i, a) == SeqInitArray(i, a, InitialPublished(i))

(***************************************************************************)
(* The send half on its own: senders, their cancellations, the writer.     *)
(***************************************************************************)
\* the scheduler after construction; the sequencer takes no part
Init == SchedInit /\ SeqInitWith(0, {})

IoResults == {"ok", "aborted", "error"}

SendNext ==
    \/ \E f \in Forks, n \in 1..MaxPayload : Send(f, n)
    \/ \E id \in OpIds : CancelSend(id)
    \/ \E id \in OpIds : CancelStop(id)
    \/ WriterBegin
    \/ \E ec \in IoResults, bt \in 0..(HeaderWords + CtrlBlkWords + MaxPayload) :
          WriterIo(ec, bt)
    \/ WriterNext

SpecSend == Init /\ [][SendNext]_vars

(***************************************************************************)
(* The receive half on its own: receivers, their cancellations, the peer,  *)
(* the reader.                                                             *)
(***************************************************************************)
RecvIoResults == {"ok", "aborted", "error"}

RecvNext ==
    \/ \E f \in Forks, n \in 1..MaxPayload : Recv(f, n)
    \/ \E id \in OpIds : CancelRecv(id)
    \/ \E id \in OpIds : CancelRecvStop(id)
    \/ \E f \in Forks, n \in 1..MaxPayload, v \in PayloadVals : PeerSend(f, n, v)
    \/ ReaderBegin
    \/ \E ec \in RecvIoResults, bt \in 0..(CtrlBlkWords + MaxPayload) :
          ReaderIo(ec, bt)
    \/ ReaderGetSlot
    \/ ReaderGotSlot
    \/ ReaderNext

SpecRecv == Init /\ [][RecvNext]_vars

(***************************************************************************)
(* Both halves with flush(): one fork, one-word payloads on either side,   *)
(* and a transfer that fails or is aborted has moved nothing.              *)
(***************************************************************************)
FlushSizes == {1}

FlushForks == {1}

FlushNext ==
    \/ Flush
    \/ \E f \in FlushForks, n \in FlushSizes : Send(f, n)
    \/ \E id \in OpIds : CancelSend(id)
    \/ \E id \in OpIds : CancelStop(id)
    \/ WriterBegin
    \/ \E ec \in IoResults, bt \in {0, Len(wBuf)} : WriterIo(ec, bt)
    \/ WriterNext
    \/ \E f \in FlushForks, n \in FlushSizes : Recv(f, n)
    \/ \E id \in OpIds : CancelRecv(id)
    \/ \E id \in OpIds : CancelRecvStop(id)
    \/ \E f \in FlushForks, n \in FlushSizes, v \in PayloadVals : PeerSend(f, n, v)
    \/ ReaderBegin
    \/ \E ec \in RecvIoResults, bt \in {0, rBufLen} : ReaderIo(ec, bt)
    \/ ReaderGetSlot
    \/ ReaderGotSlot
    \/ ReaderNext

SpecFlush == Init /\ [][FlushNext]_vars

(***************************************************************************)
(* Closing: both halves on every fork with one-word payloads, transfers    *)
(* that succeed or fail whole, and close() called at any moment, any       *)
(* number of times.                                                        *)
(***************************************************************************)
CloseSizes == {1}

CloseIoResults == {"ok", "error"}

\* the reader's stream errors are told apart from the writer's
CloseRecvResults == {"ok", "eof"}

CloseNext ==
    \/ Close
    \/ \E f \in Forks, n \in CloseSizes : Send(f, n)
    \/ WriterBegin
    \/ \E ec \in CloseIoResults, bt \in {0, Len(wBuf)} : WriterIo(ec, bt)
    \/ WriterNext
    \/ \E f \in Forks, n \in CloseSizes : Recv(f, n)
    \/ \E f \in Forks, n \in CloseSizes, v \in PayloadVals : PeerSend(f, n, v)
    \/ ReaderBegin
    \/ \E ec \in CloseRecvResults, bt \in {0, rBufLen} : ReaderIo(ec, bt)
    \/ ReaderGetSlot
    \/ ReaderGotSlot
    \/ ReaderNext

SpecClose == Init /\ [][CloseNext]_vars

(***************************************************************************)
(* Closing single forks: both halves on every fork with one-word payloads, *)
(* transfers that succeed or fail whole, and closeFork called at any       *)
(* moment.                                                                 *)
(***************************************************************************)
ForkNext ==
    \/ \E f \in Forks : CloseFork(f)
    \/ \E f \in Forks, n \in CloseSizes : Send(f, n)
    \/ WriterBegin
    \/ \E ec \in CloseIoResults, bt \in {0, Len(wBuf)} : WriterIo(ec, bt)
    \/ WriterNext
    \/ \E f \in Forks, n \in CloseSizes : Recv(f, n)
    \/ \E f \in Forks, n \in CloseSizes, v \in PayloadVals : PeerSend(f, n, v)
    \/ ReaderBegin
    \/ \E ec \in CloseIoResults, bt \in {0, rBufLen} : ReaderIo(ec, bt)
    \/ ReaderGetSlot
    \/ ReaderGotSlot
    \/ ReaderNext

SpecFork == Init /\ [][ForkNext]_vars

(***************************************************************************)
(* Destruction: both halves on every fork with one-word payloads,          *)
(* transfers that succeed or fail whole, flush(), and the scheduler        *)
(* destroyed at any moment.                                                *)
(***************************************************************************)
DtorNext ==
    \/ Destroy
    \/ Flush
    \/ \E f \in Forks, n \in CloseSizes : Send(f, n)
    \/ WriterBegin
    \/ \E ec \in CloseIoResults, bt \in {0, Len(wBuf)} : WriterIo(ec, bt)
    \/ WriterNext
    \/ \E f \in Forks, n \in CloseSizes : Recv(f, n)
    \/ \E f \in Forks, n \in CloseSizes, v \in PayloadVals : PeerSend(f, n, v)
    \/ ReaderBegin
    \/ \E ec \in CloseRecvResults, bt \in {0, rBufLen} : ReaderIo(ec, bt)
    \/ ReaderGetSlot
    \/ ReaderGotSlot
    \/ ReaderNext

SpecDtor == Init /\ [][DtorNext]_vars

(***************************************************************************)
(* Settling: both halves on one fork with one-word payloads, transfers     *)
(* that succeed, are aborted or fail whole, cancellation of any pending    *)
(* op, and close() and closeFork called at any moment.                     *)
(***************************************************************************)
\* the forks that send and receive
SettleForks == {1}

SettleNext ==
    \/ Close
    \/ \E f \in Forks : CloseFork(f)
    \/ \E f \in SettleForks, n \in CloseSizes : Send(f, n)
    \/ \E id \in OpIds : CancelSend(id)
    \/ \E id \in OpIds : CancelStop(id)
    \/ WriterBegin
    \/ \E ec \in IoResults, bt \in {0, Len(wBuf)} : WriterIo(ec, bt)
    \/ WriterNext
    \/ \E f \in SettleForks, n \in CloseSizes : Recv(f, n)
    \/ \E id \in OpIds : CancelRecv(id)
    \/ \E id \in OpIds : CancelRecvStop(id)
    \/ \E f \in SettleForks, n \in CloseSizes, v \in PayloadVals : PeerSend(f, n, v)
    \/ ReaderBegin
    \/ \E ec \in RecvIoResults, bt \in {0, rBufLen} : ReaderIo(ec, bt)
    \/ ReaderGetSlot
    \/ ReaderGotSlot
    \/ ReaderNext

SpecSettle == Init /\ [][SettleNext]_vars

(***************************************************************************)
(* Claiming.                                                               *)
(***************************************************************************)
\* how many sequences have been claimed so far
NumClaimed == Difference(m_nextToClaim, Wrap(initialSequence + 1))

\* a fetch_add that adds one whatever the count
AdvanceByOne(next, count) == Wrap(next + 1)

\* m_nextToClaim.fetch_add(count): the new value
Advance(next, count) == Wrap(next + count)

\* a wait on the first sequence of the range instead of the last
ClaimWaitFront(first, count) == Wrap(first + SeqMod - BufferSize)

\* claimedRange.back() - bufferSize, claimedSequence - bufferSize
ClaimWaitTarget(first, count) == Wrap(first + count - 1 + SeqMod - BufferSize)

\* a publish(range) that stores the front of the range for every sequence of it
PublishFrontOnly(first, count) == [i \in 1..count |-> first]

\* publish(range): range.skip(1) in order, then range.front()
PublishOrder(first, count) ==
    [i \in 1..(count - 1) |-> Wrap(first + i)] \o <<first>>

\* co_await claim_one(): fetch_add(1), then the wait on the consumer barrier
ClaimOne(p) ==
    /\ tPc[p] = "idle"
    /\ claimOp[p] = NoClaimOp
    /\ NumClaimed + 1 <= MaxSeq
    /\ m_nextToClaim' = Advance(m_nextToClaim, 1)
    /\ claimedRange' = [claimedRange EXCEPT ![p] = <<m_nextToClaim, 1>>]
    /\ claimLog' = Append(claimLog, <<m_nextToClaim, 1>>)
    /\ tPc' = [tPc EXCEPT ![p] = "claimwait"]
    /\ UNCHANGED <<schedVars, ctorVars, listVars, claimOp, active, initialSequence, m_published, m_awaiters, barrier,
                   publishedByCall, pubQ, m_targetSequence, m_lastKnownPublished,
                   m_readyToResume, retVal, known, lAwaiters, lToResume,
                   lToRequeue, lLkp, lTarget, lSeq>>

\* a claim operation that keeps the count it was given
ClaimCountAsGiven(count, size) == count

\* sequence_mpsc_claim_operation: m_count(count < buffer_size() ? count : buffer_size())
ClaimCount(count, size) == IF count < size THEN count ELSE size

\* co_await claim_up_to(count): fetch_add(min(count, buffer_size())), then the wait
ClaimUpTo(p, count) ==
    /\ tPc[p] = "idle"
    /\ claimOp[p] = NoClaimOp
    /\ LET m_count == ClaimCount(count, BufferSize) IN
       /\ NumClaimed + m_count <= MaxSeq
       /\ m_nextToClaim' = Advance(m_nextToClaim, m_count)
       /\ claimedRange' = [claimedRange EXCEPT ![p] = <<m_nextToClaim, m_count>>]
       /\ claimLog' = Append(claimLog, <<m_nextToClaim, m_count>>)
    /\ tPc' = [tPc EXCEPT ![p] = "claimwait"]
    /\ UNCHANGED <<schedVars, ctorVars, listVars, claimOp, active, initialSequence, m_published, m_awaiters, barrier,
                   publishedByCall, pubQ, m_targetSequence, m_lastKnownPublished,
                   m_readyToResume, retVal, known, lAwaiters, lToResume,
                   lToRequeue, lLkp, lTarget, lSeq>>

\* an operation that claims its sequences when it is built
BuildClaims(next, m_count) == Wrap(next + m_count)

\* the constructors of the two operations: they keep the sequencer and the count,
\* and m_nextToClaim is as it was
BuildLeaves(next, m_count) == next

\* claim_one(): the operation is built and handed to the caller
MakeClaimOne(p) ==
    /\ tPc[p] = "idle"
    /\ HoldsNoClaim(claimOp[p])
    /\ claimOp' = [claimOp EXCEPT ![p] = [kind |-> "one", count |-> 1, m_count |-> 1]]
    /\ m_nextToClaim' = BuildLeaves(m_nextToClaim, 1)
    /\ UNCHANGED <<schedVars, ctorVars, listVars, active, initialSequence, m_published,
                   m_awaiters, barrier, publishedByCall, claimLog, tPc, claimedRange,
                   pubQ, m_targetSequence, m_lastKnownPublished, m_readyToResume,
                   retVal, known, lAwaiters, lToResume, lToRequeue, lLkp,
                   lTarget, lSeq>>

\* claim_up_to(count): the operation is built with its m_count
MakeClaimUpTo(p, count) ==
    /\ tPc[p] = "idle"
    /\ HoldsNoClaim(claimOp[p])
    /\ claimOp' = [claimOp EXCEPT ![p] =
                     [kind |-> "upto", count |-> count,
                      m_count |-> ClaimCount(count, BufferSize)]]
    /\ m_nextToClaim' = BuildLeaves(m_nextToClaim, ClaimCount(count, BufferSize))
    /\ UNCHANGED <<schedVars, ctorVars, listVars, active, initialSequence, m_published,
                   m_awaiters, barrier, publishedByCall, claimLog, tPc, claimedRange,
                   pubQ, m_targetSequence, m_lastKnownPublished, m_readyToResume,
                   retVal, known, lAwaiters, lToResume, lToRequeue, lLkp,
                   lTarget, lSeq>>

\* the operation is destroyed without having been awaited: it has no destructor
\* of its own
DiscardClaim(p) ==
    /\ tPc[p] = "idle"
    /\ ~HoldsNoClaim(claimOp[p])
    /\ claimOp' = [claimOp EXCEPT ![p].kind = "dropped"]
    /\ UNCHANGED <<schedVars, ctorVars, listVars, active, initialSequence, m_published, m_nextToClaim,
                   m_awaiters, barrier, publishedByCall, claimLog, tPc, claimedRange,
                   pubQ, m_targetSequence, m_lastKnownPublished, m_readyToResume,
                   retVal, known, lAwaiters, lToResume, lToRequeue, lLkp,
                   lTarget, lSeq>>

\* operator co_await of the operation: fetch_add(1) or fetch_add(m_count), the
\* range [first, first + m_count), then the wait on the consumer barrier
AwaitClaim(p) ==
    /\ tPc[p] = "idle"
    /\ ~HoldsNoClaim(claimOp[p])
    /\ LET m_count == claimOp[p].m_count IN
       /\ NumClaimed + m_count <= MaxSeq
       /\ m_nextToClaim' = Advance(m_nextToClaim, m_count)
       /\ claimedRange' = [claimedRange EXCEPT ![p] = <<m_nextToClaim, m_count>>]
       /\ claimLog' = Append(claimLog, <<m_nextToClaim, m_count>>)
    /\ claimOp' = [claimOp EXCEPT ![p].kind = "awaited"]
    /\ tPc' = [tPc EXCEPT ![p] = "claimwait"]
    /\ UNCHANGED <<schedVars, ctorVars, listVars, active, initialSequence, m_published, m_awaiters, barrier,
                   publishedByCall, pubQ, m_targetSequence, m_lastKnownPublished,
                   m_readyToResume, retVal, known, lAwaiters, lToResume,
                   lToRequeue, lLkp, lTarget, lSeq>>

\* the wait on the consumer barrier is over: the producer has its sequences and
\* goes on to publish them
ClaimResume(p) ==
    /\ tPc[p] = "claimwait"
    /\ ~Precedes(barrier, ClaimWaitTarget(claimedRange[p][1], claimedRange[p][2]))
    /\ pubQ' = [pubQ EXCEPT ![p] = PublishOrder(claimedRange[p][1], claimedRange[p][2])]
    /\ tPc' = [tPc EXCEPT ![p] = "pub"]
    /\ UNCHANGED <<schedVars, ctorVars, listVars, claimOp, active, initialSequence, m_published, m_nextToClaim,
                   m_awaiters, barrier, publishedByCall, claimLog, claimedRange,
                   m_targetSequence, m_lastKnownPublished, m_readyToResume,
                   retVal, known, lAwaiters, lToResume, lToRequeue, lLkp,
                   lTarget, lSeq>>

\* the consumer publishes one more sequence on its barrier: one that every
\* waiter has been given
BarrierPublish ==
    /\ \A w \in Waiters \cap active : Difference(known[w], Wrap(barrier + 1)) >= 0
    /\ barrier' = Wrap(barrier + 1)
    /\ UNCHANGED <<schedVars, ctorVars, listVars, claimOp, active, initialSequence, m_published, m_nextToClaim,
                   m_awaiters, publishedByCall, claimLog, tPc, claimedRange, pubQ,
                   m_targetSequence, m_lastKnownPublished, m_readyToResume,
                   retVal, known, lAwaiters, lToResume, lToRequeue, lLkp,
                   lTarget, lSeq>>

(***************************************************************************)
(* publish and resume_ready_awaiters.                                      *)
(***************************************************************************)
\* m_published[seq & m_sequenceMask].store(seq)
PublishStore(p) ==
    /\ tPc[p] = "pub"
    /\ LET s == Head(pubQ[p]) IN
       /\ m_published' = [m_published EXCEPT ![Index(s)] = s]
       /\ publishedByCall' = publishedByCall \cup {s}
    /\ pubQ' = [pubQ EXCEPT ![p] = Tail(@)]
    /\ tPc' = [tPc EXCEPT ![p] = IF Tail(pubQ[p]) = <<>> THEN "rra_take" ELSE "pub"]
    /\ claimedRange' = [claimedRange EXCEPT ![p] =
                           IF Tail(pubQ[p]) = <<>> THEN <<0, 0>> ELSE @]
    /\ UNCHANGED <<schedVars, ctorVars, listVars, claimOp, active, initialSequence, m_nextToClaim, m_awaiters, barrier,
                   claimLog, m_targetSequence, m_lastKnownPublished,
                   m_readyToResume, retVal, known, lAwaiters, lToResume,
                   lToRequeue, lLkp, lTarget, lSeq>>

\* the awaiters of a list that are not ready at lkp, and those that are
ToRequeue(list, lkp) ==
    SelectSeq(list, LAMBDA a : Difference(m_targetSequence[a], lkp) > 0)

ToResume(list, lkp) ==
    SelectSeq(list, LAMBDA a : ~(Difference(m_targetSequence[a], lkp) > 0))

\* minDiff over the awaiters that are requeued
MinDiff(list, lkp) ==
    IF list = <<>> THEN MaxDiff
    ELSE CHOOSE d \in {Difference(m_targetSequence[list[i]], lkp) : i \in 1..Len(list)} :
            \A i \in 1..Len(list) : d <= Difference(m_targetSequence[list[i]], lkp)

\* m_awaiters.load(), then m_awaiters.exchange(nullptr)
RraTake(p) ==
    /\ tPc[p] = "rra_take"
    /\ IF m_awaiters = <<>>
       THEN /\ tPc' = [tPc EXCEPT ![p] = "idle"]
            /\ UNCHANGED <<m_awaiters, lAwaiters>>
       ELSE /\ lAwaiters' = [lAwaiters EXCEPT ![p] = m_awaiters]
            /\ m_awaiters' = <<>>
            /\ tPc' = [tPc EXCEPT ![p] = "rra_scan"]
    /\ UNCHANGED <<schedVars, ctorVars, listVars, claimOp, active, initialSequence, m_published, m_nextToClaim, barrier,
                   publishedByCall, claimLog, claimedRange, pubQ,
                   m_targetSequence, m_lastKnownPublished, m_readyToResume,
                   retVal, known, lToResume, lToRequeue, lLkp, lTarget, lSeq>>

\* lastKnownPublished = last_published_after(awaiters->m_lastKnownPublished), then
\* the split of the list into awaitersToRequeue and awaitersToResume.  The loads of
\* the scan are taken at once: no slot after the last-known sequence of a detached
\* awaiter is stored to twice while the awaiter is held
RraScan(p) ==
    /\ tPc[p] = "rra_scan"
    /\ LET lkp == LastPublishedAfter(m_published,
                                     m_lastKnownPublished[Head(lAwaiters[p])])
           req == ToRequeue(lAwaiters[p], lkp)
           res == lToResume[p] \o ToResume(lAwaiters[p], lkp)
       IN
       /\ lLkp' = [lLkp EXCEPT ![p] = lkp]
       /\ lToRequeue' = [lToRequeue EXCEPT ![p] = req]
       /\ lToResume' = [lToResume EXCEPT ![p] = res]
       /\ m_lastKnownPublished' =
             [w \in Waiters |->
                 IF \E i \in 1..Len(lAwaiters[p]) : lAwaiters[p][i] = w
                 THEN lkp ELSE m_lastKnownPublished[w]]
       /\ lAwaiters' = [lAwaiters EXCEPT ![p] = <<>>]
       /\ lTarget' = [lTarget EXCEPT ![p] = Wrap(lkp + MinDiff(req, lkp))]
       /\ tPc' = [tPc EXCEPT ![p] = IF req # <<>> THEN "rra_requeue"
                                   ELSE "rra_resume"]
    /\ UNCHANGED <<schedVars, ctorVars, listVars, claimOp, active, initialSequence, m_published, m_nextToClaim,
                   m_awaiters, barrier, publishedByCall, claimLog, claimedRange,
                   pubQ, m_targetSequence, m_readyToResume, retVal, known, lSeq>>

\* the compare_exchange loop that puts awaitersToRequeue back in front of m_awaiters
RraRequeue(p) ==
    /\ tPc[p] = "rra_requeue"
    /\ m_awaiters' = lToRequeue[p] \o m_awaiters
    /\ lToRequeue' = [lToRequeue EXCEPT ![p] = <<>>]
    /\ lSeq' = [lSeq EXCEPT ![p] = Wrap(lLkp[p] + 1)]
    /\ tPc' = [tPc EXCEPT ![p] = "rra_rescan"]
    /\ UNCHANGED <<schedVars, ctorVars, listVars, claimOp, active, initialSequence, m_published, m_nextToClaim, barrier,
                   publishedByCall, claimLog, claimedRange, pubQ,
                   m_targetSequence, m_lastKnownPublished, m_readyToResume,
                   retVal, known, lAwaiters, lToResume, lLkp, lTarget>>

\* a re-scan that never sees what was published meanwhile
RescanBlind(v, seq) == FALSE

\* a load of the re-scan hit the sequence it looked for
RescanHit(v, seq) == v = seq

\* the re-scan of m_published after the requeue, one load at a time
RraRescan(p) ==
    /\ tPc[p] = "rra_rescan"
    /\ LET seq == lSeq[p] IN
       IF RescanHit(m_published[Index(seq)], seq)
       THEN /\ lLkp' = [lLkp EXCEPT ![p] = seq]
            /\ IF seq = lTarget[p]
               THEN tPc' = [tPc EXCEPT ![p] = "rra_retake"] /\ UNCHANGED lSeq
               ELSE lSeq' = [lSeq EXCEPT ![p] = Wrap(seq + 1)] /\ UNCHANGED tPc
       ELSE /\ tPc' = [tPc EXCEPT ![p] = "rra_resume"]
            /\ UNCHANGED <<lLkp, lSeq>>
    /\ UNCHANGED <<schedVars, ctorVars, listVars, claimOp, active, initialSequence, m_published, m_nextToClaim,
                   m_awaiters, barrier, publishedByCall, claimLog, claimedRange,
                   pubQ, m_targetSequence, m_lastKnownPublished, m_readyToResume,
                   retVal, known, lAwaiters, lToResume, lToRequeue, lTarget>>

\* awaiters = m_awaiters.exchange(nullptr), then around the outer loop
RraRetake(p) ==
    /\ tPc[p] = "rra_retake"
    /\ IF m_awaiters = <<>>
       THEN /\ tPc' = [tPc EXCEPT ![p] = "rra_resume"]
            /\ UNCHANGED <<m_awaiters, lAwaiters>>
       ELSE /\ lAwaiters' = [lAwaiters EXCEPT ![p] = m_awaiters]
            /\ m_awaiters' = <<>>
            /\ tPc' = [tPc EXCEPT ![p] = "rra_scan"]
    /\ UNCHANGED <<schedVars, ctorVars, listVars, claimOp, active, initialSequence, m_published, m_nextToClaim, barrier,
                   publishedByCall, claimLog, claimedRange, pubQ,
                   m_targetSequence, m_lastKnownPublished, m_readyToResume,
                   retVal, known, lToResume, lToRequeue, lLkp, lTarget, lSeq>>

\* an await_suspend that suspends whatever the exchange returned
SuspendAlways(ready) == TRUE

\* await_suspend: return !m_readyToResume.exchange(true), ready the value exchanged
AwaitSuspendReturns(ready) == ~ready

\* resume(): if (m_readyToResume.exchange(true)) resume_impl()
ResumeCallsImpl(ready) == ready

\* the pc of a thread whose resume list is empty: the call returns
Returned(t) == IF t \in Producers THEN "idle" ELSE "aw_exch"

\* awaitersToResume->resume(lastKnownPublished) for the first awaiter left in the
\* list; after the last one the call returns
ResumeStep(t) ==
    /\ tPc[t] \in {"rra_resume", "aw_resume"}
    /\ IF lToResume[t] = <<>>
       THEN /\ tPc' = [tPc EXCEPT ![t] = Returned(t)]
            /\ lLkp' = [lLkp EXCEPT ![t] = 0]
            /\ lTarget' = [lTarget EXCEPT ![t] = 0]
            /\ lSeq' = [lSeq EXCEPT ![t] = 0]
            /\ UNCHANGED <<m_lastKnownPublished, m_readyToResume, retVal, lToResume>>
       ELSE LET a    == Head(lToResume[t])
                last == Tail(lToResume[t]) = <<>>
                pc1  == IF last THEN [tPc EXCEPT ![t] = Returned(t)] ELSE tPc
            IN
            /\ m_lastKnownPublished' = [m_lastKnownPublished EXCEPT ![a] = lLkp[t]]
            /\ lToResume' = [lToResume EXCEPT ![t] = Tail(@)]
            /\ IF ResumeCallsImpl(m_readyToResume[a])
               THEN /\ tPc' = [pc1 EXCEPT ![a] = "resumed"]
                    /\ retVal' = [retVal EXCEPT ![a] = lLkp[t]]
                    /\ UNCHANGED m_readyToResume
               ELSE /\ m_readyToResume' = [m_readyToResume EXCEPT ![a] = TRUE]
                    /\ tPc' = pc1
                    /\ UNCHANGED retVal
            /\ lLkp' = IF last THEN [lLkp EXCEPT ![t] = 0] ELSE lLkp
            /\ lTarget' = IF last THEN [lTarget EXCEPT ![t] = 0] ELSE lTarget
            /\ lSeq' = IF last THEN [lSeq EXCEPT ![t] = 0] ELSE lSeq
    /\ UNCHANGED <<schedVars, ctorVars, listVars, claimOp, active, initialSequence, m_published, m_nextToClaim,
                   m_awaiters, barrier, publishedByCall, claimLog, claimedRange,
                   pubQ, m_targetSequence, known, lAwaiters, lToRequeue>>

(***************************************************************************)
(* wait_until_published and add_awaiter.                                   *)
(***************************************************************************)
\* add_awaiter's test of a detached awaiter: TRAITS::difference(targetSequence,
\* lastKnownPublished), with the targetSequence local to the call
AddAwaiterDiff(awaiterTarget, targetSequence, lkp) == Difference(targetSequence, lkp)

\* co_await wait_until_published(target, known): await_ready is false, so
\* await_suspend calls add_awaiter
Wait(w, target) ==
    /\ tPc[w] = "idle"
    /\ Difference(target, known[w]) > 0
    /\ Difference(target, initialSequence) \in 1..MaxSeq
    /\ m_targetSequence' = [m_targetSequence EXCEPT ![w] = target]
    /\ m_lastKnownPublished' = [m_lastKnownPublished EXCEPT ![w] = known[w]]
    /\ m_readyToResume' = [m_readyToResume EXCEPT ![w] = FALSE]
    /\ lTarget' = [lTarget EXCEPT ![w] = target]
    /\ lLkp' = [lLkp EXCEPT ![w] = known[w]]
    /\ lToRequeue' = [lToRequeue EXCEPT ![w] = <<w>>]
    /\ lToResume' = [lToResume EXCEPT ![w] = <<>>]
    /\ tPc' = [tPc EXCEPT ![w] = "aw_push"]
    /\ UNCHANGED <<schedVars, ctorVars, listVars, claimOp, active, initialSequence, m_published, m_nextToClaim,
                   m_awaiters, barrier, publishedByCall, claimLog, claimedRange,
                   pubQ, retVal, known, lAwaiters, lSeq>>

\* the compare_exchange loop that puts awaitersToEnqueue in front of m_awaiters
AwPush(w) ==
    /\ tPc[w] = "aw_push"
    /\ m_awaiters' = lToRequeue[w] \o m_awaiters
    /\ lToRequeue' = [lToRequeue EXCEPT ![w] = <<>>]
    /\ tPc' = [tPc EXCEPT ![w] = "aw_scan"]
    /\ UNCHANGED <<schedVars, ctorVars, listVars, claimOp, active, initialSequence, m_published, m_nextToClaim, barrier,
                   publishedByCall, claimLog, claimedRange, pubQ,
                   m_targetSequence, m_lastKnownPublished, m_readyToResume,
                   retVal, known, lAwaiters, lToResume, lLkp, lTarget, lSeq>>

\* the scan of m_published after the enqueue, its loads taken at once: the caller
\* has not been given a later sequence, so no slot after lastKnownPublished is
\* stored to twice meanwhile
AwScan(w) ==
    /\ tPc[w] = "aw_scan"
    /\ LET lkp == LastPublishedAfter(m_published, lLkp[w]) IN
       /\ lLkp' = [lLkp EXCEPT ![w] = lkp]
       /\ tPc' = [tPc EXCEPT ![w] = IF ~Precedes(lkp, lTarget[w])
                                   THEN "aw_take" ELSE "aw_resume"]
    /\ UNCHANGED <<schedVars, ctorVars, listVars, claimOp, active, initialSequence, m_published, m_nextToClaim,
                   m_awaiters, barrier, publishedByCall, claimLog, claimedRange,
                   pubQ, m_targetSequence, m_lastKnownPublished, m_readyToResume,
                   retVal, known, lAwaiters, lToResume, lToRequeue, lTarget,
                   lSeq>>

\* awaiters = m_awaiters.exchange(nullptr), and the split of the detached list
AwTake(w) ==
    /\ tPc[w] = "aw_take"
    /\ LET lkp  == lLkp[w]
           list == m_awaiters
           diff(a) == AddAwaiterDiff(m_targetSequence[a], lTarget[w], lkp)
           req  == SelectSeq(list, LAMBDA a : diff(a) > 0)
           res  == SelectSeq(list, LAMBDA a : ~(diff(a) > 0))
           minDiff == IF req = <<>> THEN MaxDiff
                      ELSE CHOOSE d \in {diff(req[i]) : i \in 1..Len(req)} :
                              \A i \in 1..Len(req) : d <= diff(req[i])
       IN
       /\ m_awaiters' = <<>>
       /\ lToRequeue' = [lToRequeue EXCEPT ![w] = req]
       /\ lToResume' = [lToResume EXCEPT ![w] = @ \o res]
       /\ m_lastKnownPublished' =
             [a \in Waiters |->
                 IF \E i \in 1..Len(req) : req[i] = a
                 THEN lkp ELSE m_lastKnownPublished[a]]
       /\ lTarget' = [lTarget EXCEPT ![w] = Wrap(lkp + minDiff)]
       /\ tPc' = [tPc EXCEPT ![w] = IF req # <<>> THEN "aw_push" ELSE "aw_resume"]
    /\ UNCHANGED <<schedVars, ctorVars, listVars, claimOp, active, initialSequence, m_published, m_nextToClaim, barrier,
                   publishedByCall, claimLog, claimedRange, pubQ,
                   m_targetSequence, m_readyToResume, retVal, known,
                   lAwaiters, lLkp, lSeq>>

\* await_suspend: return !m_readyToResume.exchange(true)
AwExchange(w) ==
    /\ tPc[w] = "aw_exch"
    /\ IF ~AwaitSuspendReturns(m_readyToResume[w])
       THEN /\ tPc' = [tPc EXCEPT ![w] = "resumed"]
            /\ retVal' = [retVal EXCEPT ![w] = m_lastKnownPublished[w]]
            /\ UNCHANGED m_readyToResume
       ELSE /\ tPc' = [tPc EXCEPT ![w] = "parked"]
            /\ m_readyToResume' = [m_readyToResume EXCEPT ![w] = TRUE]
            /\ UNCHANGED retVal
    /\ UNCHANGED <<schedVars, ctorVars, listVars, claimOp, active, initialSequence, m_published, m_nextToClaim,
                   m_awaiters, barrier, publishedByCall, claimLog, claimedRange,
                   pubQ, m_targetSequence, m_lastKnownPublished, known,
                   lAwaiters, lToResume, lToRequeue, lLkp, lTarget, lSeq>>

\* the waiter goes on with the value await_resume gave it; its awaiter is destroyed
WaitDone(w) ==
    /\ tPc[w] = "resumed"
    /\ known' = [known EXCEPT ![w] = retVal[w]]
    /\ tPc' = [tPc EXCEPT ![w] = "idle"]
    /\ m_targetSequence' = [m_targetSequence EXCEPT ![w] = initialSequence]
    /\ m_lastKnownPublished' = [m_lastKnownPublished EXCEPT ![w] = initialSequence]
    /\ m_readyToResume' = [m_readyToResume EXCEPT ![w] = FALSE]
    /\ retVal' = [retVal EXCEPT ![w] = initialSequence]
    /\ UNCHANGED <<schedVars, ctorVars, listVars, claimOp, active, initialSequence, m_published, m_nextToClaim,
                   m_awaiters, barrier, publishedByCall, claimLog, claimedRange,
                   pubQ, lAwaiters, lToResume, lToRequeue, lLkp, lTarget, lSeq>>

(***************************************************************************)
(* The sequencer with its producers and waiters.                           *)
(***************************************************************************)
\* the greatest sequence, so that the first sequence claimed wraps to 0
InitialSequences == {SeqMod - 1}

\* every producer and one consumer
ClaimThreads == Producers \cup {NumProducers + 1}

\* one producer and every consumer
AwaitThreads == {1} \cup Waiters

SeqInit == SchedInit /\ \E i \in InitialSequences : SeqInitWith(i, ClaimThreads)

AwaitInit == SchedInit /\ \E i \in InitialSequences : SeqInitWith(i, AwaitThreads)

\* the steps of a call that has started
CallStep(t) ==
    \/ t \in Producers /\ PublishStore(t)
    \/ t \in Producers /\ RraTake(t)
    \/ t \in Producers /\ RraScan(t)
    \/ t \in Producers /\ RraRequeue(t)
    \/ t \in Producers /\ RraRescan(t)
    \/ t \in Producers /\ RraRetake(t)
    \/ ResumeStep(t)
    \/ t \in Waiters /\ AwPush(t)
    \/ t \in Waiters /\ AwScan(t)
    \/ t \in Waiters /\ AwTake(t)
    \/ t \in Waiters /\ AwExchange(t)

SeqNext ==
    \/ \E p \in Producers \cap active : ClaimOne(p)
    \/ \E p \in Producers \cap active, count \in 2..(BufferSize + 1) : ClaimUpTo(p, count)
    \/ \E p \in Producers : ClaimResume(p)
    \/ BarrierPublish
    \/ \E w \in Waiters \cap active, target \in Seqs : Wait(w, target)
    \/ \E w \in Waiters : WaitDone(w)
    \/ \E t \in Threads : CallStep(t)

\* two producers racing to claim and publish, one consumer
SpecSeq == SeqInit /\ [][SeqNext]_vars

\* every call that has started runs to completion
SpecSeqFair == SpecSeq /\ \A t \in Threads : WF_vars(CallStep(t))

\* one producer and every consumer: with no second producer the re-scan that
\* follows a requeue finds nothing new, so RraRetake has no part in it
AwaitNext ==
    \/ \E p \in Producers \cap active : ClaimOne(p)
    \/ \E p \in Producers \cap active, count \in 2..(BufferSize + 1) : ClaimUpTo(p, count)
    \/ \E p \in Producers : ClaimResume(p)
    \/ BarrierPublish
    \/ \E w \in Waiters \cap active, target \in Seqs : Wait(w, target)
    \/ \E w \in Waiters : WaitDone(w)
    \/ \E p \in Producers : PublishStore(p)
    \/ \E p \in Producers : RraTake(p)
    \/ \E p \in Producers : RraScan(p)
    \/ \E p \in Producers : RraRequeue(p)
    \/ \E p \in Producers : RraRescan(p)
    \/ \E t \in Threads : ResumeStep(t)
    \/ \E w \in Waiters : AwPush(w)
    \/ \E w \in Waiters : AwScan(w)
    \/ \E w \in Waiters : AwTake(w)
    \/ \E w \in Waiters : AwExchange(w)

SpecAwait == AwaitInit /\ [][AwaitNext]_vars

\* the counts a caller passes to claim_up_to: one, the buffer size, and more
ClaimCounts == 1..(BufferSize + 1)

\* the producers build their claim operations first and await or drop them later
LazyNext ==
    \/ \E p \in Producers \cap active : MakeClaimOne(p)
    \/ \E p \in Producers \cap active, count \in ClaimCounts : MakeClaimUpTo(p, count)
    \/ \E p \in Producers : DiscardClaim(p)
    \/ \E p \in Producers : AwaitClaim(p)
    \/ \E p \in Producers : ClaimResume(p)
    \/ BarrierPublish
    \/ \E w \in Waiters \cap active, target \in Seqs : Wait(w, target)
    \/ \E w \in Waiters : WaitDone(w)
    \/ \E t \in Threads : CallStep(t)

SpecLazy == SeqInit /\ [][LazyNext]_vars

(***************************************************************************)
(* resume_ready_awaiters and add_awaiter on the pointers of the list.      *)
(* The pc of a thread in one of these calls is one of                      *)
(*     "rra_take" | "p_split" | "p_cas" | "rra_rescan" | "rra_retake" |    *)
(*     "rra_resume" | "p_aw_load" | "p_aw_cas" | "p_aw_scan" |             *)
(*     "p_aw_take" | "p_resume" | "p_diverged"                             *)
(***************************************************************************)
\* what the list operations leave alone
claimVars == <<claimOp, active, initialSequence, m_published, m_nextToClaim, barrier,
               publishedByCall, claimLog, claimedRange, pubQ>>

listsAsSequences == <<m_awaiters, lAwaiters, lToResume, lToRequeue>>

\* a loop over a list of awaiters makes at most this many turns on a list that ends
MaxTurns == NumWaiters

\* a compare_exchange that stores whatever m_awaiters holds
CasBlind(current, expected) == TRUE

\* m_awaiters.compare_exchange_weak(oldHead, list): it stores if m_awaiters == oldHead
CasSucceeds(current, expected) == current = expected

\* the locals of a call and the m_next of every awaiter
ListState(t) ==
    [next    |-> m_next,
     res     |-> awaitersToResume[t],
     resTail |-> awaitersToResumeTail[t],
     req     |-> awaitersToRequeue[t],
     reqTail |-> awaitersToRequeueTail[t],
     lkpOf   |-> m_lastKnownPublished,
     minDiff |-> MaxDiff,
     ended   |-> TRUE]

\* *awaitersToRequeueTail = a
LinkRequeue(st, a) ==
    IF st.reqTail = LocalHead THEN [st EXCEPT !.req = a]
    ELSE [st EXCEPT !.next[st.reqTail] = a]

\* *awaitersToResumeTail = a
LinkResume(st, a) ==
    IF st.resTail = LocalHead THEN [st EXCEPT !.res = a]
    ELSE [st EXCEPT !.next[st.resTail] = a]

\* resume_ready_awaiters: the loop that splits the detached list from a on; the
\* loop does not end on a list that does not
RECURSIVE RraSplit(_, _, _, _)
RraSplit(st, a, lkp, turns) ==
    IF a = Null THEN st
    ELSE IF a = Garbage \/ turns = 0 THEN [st EXCEPT !.ended = FALSE]
    ELSE LET diff == Difference(m_targetSequence[a], lkp)
             st1  == IF diff > 0
                     THEN [LinkRequeue(st, a) EXCEPT
                              !.minDiff = IF diff < st.minDiff THEN diff ELSE st.minDiff,
                              !.reqTail = a]
                     ELSE [LinkResume(st, a) EXCEPT !.resTail = a]
             st2  == [st1 EXCEPT !.lkpOf[a] = lkp]
         IN RraSplit(st2, st2.next[a], lkp, turns - 1)

\* add_awaiter: the loop that splits the detached list from a on
RECURSIVE AwSplit(_, _, _, _, _)
AwSplit(st, a, targetSequence, lkp, turns) ==
    IF a = Null THEN st
    ELSE IF a = Garbage \/ turns = 0 THEN [st EXCEPT !.ended = FALSE]
    ELSE LET diff == AddAwaiterDiff(m_targetSequence[a], targetSequence, lkp)
             st1  == IF diff > 0
                     THEN [LinkRequeue(st, a) EXCEPT
                              !.minDiff = IF diff < st.minDiff THEN diff ELSE st.minDiff,
                              !.reqTail = a,
                              !.lkpOf[a] = lkp]
                     ELSE [LinkResume(st, a) EXCEPT !.resTail = a]
         IN AwSplit(st1, st1.next[a], targetSequence, lkp, turns - 1)

\* the locals and the awaiters after the writes of a call
ListWritten(t, st) ==
    /\ m_next' = st.next
    /\ awaitersToResume' = [awaitersToResume EXCEPT ![t] = st.res]
    /\ awaitersToResumeTail' = [awaitersToResumeTail EXCEPT ![t] = st.resTail]
    /\ awaitersToRequeue' = [awaitersToRequeue EXCEPT ![t] = st.req]
    /\ awaitersToRequeueTail' = [awaitersToRequeueTail EXCEPT ![t] = st.reqTail]
    /\ m_lastKnownPublished' = st.lkpOf

\* m_awaiters.load(), then m_awaiters.exchange(nullptr); the two lists of the call
\* start with their tails at their heads
PtrRraTake(p) ==
    /\ tPc[p] = "rra_take"
    /\ IF m_awaitersHead = Null
       THEN /\ tPc' = [tPc EXCEPT ![p] = "idle"]
            /\ UNCHANGED listVars
       ELSE /\ awaiters' = [awaiters EXCEPT ![p] = m_awaitersHead]
            /\ m_awaitersHead' = Null
            /\ awaitersToResume' = [awaitersToResume EXCEPT ![p] = Garbage]
            /\ awaitersToResumeTail' = [awaitersToResumeTail EXCEPT ![p] = LocalHead]
            /\ awaitersToRequeue' = [awaitersToRequeue EXCEPT ![p] = Garbage]
            /\ awaitersToRequeueTail' = [awaitersToRequeueTail EXCEPT ![p] = LocalHead]
            /\ tPc' = [tPc EXCEPT ![p] = "p_split"]
            /\ UNCHANGED <<m_next, oldHead>>
    /\ UNCHANGED <<schedVars, ctorVars, claimVars, listsAsSequences, m_targetSequence,
                   m_lastKnownPublished, m_readyToResume, retVal, known, lLkp,
                   lTarget, lSeq>>

\* lastKnownPublished = last_published_after(awaiters->m_lastKnownPublished), the
\* split, *awaitersToRequeueTail = nullptr; with nothing to requeue the outer loop
\* ends and the list to resume is null-terminated
PtrRraSplit(p) ==
    /\ tPc[p] = "p_split"
    /\ LET lkp == LastPublishedAfter(m_published, m_lastKnownPublished[awaiters[p]])
           st  == RraSplit(ListState(p), awaiters[p], lkp, MaxTurns)
           st1 == [st EXCEPT !.req = IF st.reqTail = LocalHead THEN Null ELSE @,
                             !.next = IF st.reqTail = LocalHead THEN @
                                      ELSE [@ EXCEPT ![st.reqTail] = Null]]
           none == st1.req = Null
           st2 == IF ~none THEN st1
                  ELSE [st1 EXCEPT !.res = IF st1.resTail = LocalHead THEN Null ELSE @,
                                   !.next = IF st1.resTail = LocalHead THEN @
                                            ELSE [@ EXCEPT ![st1.resTail] = Null]]
       IN
       IF ~st.ended
       THEN /\ tPc' = [tPc EXCEPT ![p] = "p_diverged"]
            /\ UNCHANGED <<listVars, m_lastKnownPublished, lLkp, lTarget>>
       ELSE /\ ListWritten(p, st2)
            /\ awaiters' = [awaiters EXCEPT ![p] = Null]
            /\ oldHead' = [oldHead EXCEPT ![p] = Null]
            /\ lLkp' = [lLkp EXCEPT ![p] = lkp]
            /\ lTarget' = [lTarget EXCEPT ![p] = Wrap(lkp + st.minDiff)]
            /\ tPc' = [tPc EXCEPT ![p] = IF none THEN "p_resume" ELSE "p_cas"]
            /\ UNCHANGED m_awaitersHead
    /\ UNCHANGED <<schedVars, ctorVars, claimVars, listsAsSequences, m_targetSequence,
                   m_readyToResume, retVal, known, lSeq>>

\* one turn of a compare_exchange loop: the list is pushed in front of m_awaiters,
\* or oldHead is reloaded and *tail = oldHead is written again
PtrCas(t) ==
    /\ tPc[t] \in {"p_cas", "p_aw_cas"}
    /\ IF CasSucceeds(m_awaitersHead, oldHead[t])
       THEN /\ m_awaitersHead' = awaitersToRequeue[t]
            /\ awaitersToRequeueTail' = [awaitersToRequeueTail EXCEPT ![t] = LocalHead]
            /\ tPc' = [tPc EXCEPT ![t] = IF t \in Producers THEN "rra_rescan"
                                        ELSE "p_aw_scan"]
            /\ lSeq' = [lSeq EXCEPT ![t] = IF t \in Producers THEN Wrap(lLkp[t] + 1)
                                          ELSE @]
            /\ UNCHANGED <<m_next, oldHead>>
       ELSE /\ oldHead' = [oldHead EXCEPT ![t] = m_awaitersHead]
            /\ m_next' = [m_next EXCEPT ![awaitersToRequeueTail[t]] = m_awaitersHead]
            /\ UNCHANGED <<m_awaitersHead, awaitersToRequeueTail, tPc, lSeq>>
    /\ UNCHANGED <<schedVars, ctorVars, claimVars, listsAsSequences, awaiters, awaitersToResume,
                   awaitersToResumeTail, awaitersToRequeue, m_targetSequence,
                   m_lastKnownPublished, m_readyToResume, retVal, known, lLkp,
                   lTarget>>

\* *awaitersToResumeTail = nullptr
ResumeListEnded(t) ==
    IF awaitersToResumeTail[t] = LocalHead
    THEN /\ awaitersToResume' = [awaitersToResume EXCEPT ![t] = Null]
         /\ UNCHANGED m_next
    ELSE /\ m_next' = [m_next EXCEPT ![awaitersToResumeTail[t]] = Null]
         /\ UNCHANGED awaitersToResume

\* awaiters = m_awaiters.exchange(nullptr) after the re-scan reached the earliest
\* target, then around the outer loop, which ends if the list is empty
PtrRraRetake(p) ==
    /\ tPc[p] = "rra_retake"
    /\ IF m_awaitersHead = Null
       THEN /\ ResumeListEnded(p)
            /\ tPc' = [tPc EXCEPT ![p] = "p_resume"]
            /\ UNCHANGED <<m_awaitersHead, awaiters>>
       ELSE /\ awaiters' = [awaiters EXCEPT ![p] = m_awaitersHead]
            /\ m_awaitersHead' = Null
            /\ tPc' = [tPc EXCEPT ![p] = "p_split"]
            /\ UNCHANGED <<m_next, awaitersToResume>>
    /\ UNCHANGED <<schedVars, ctorVars, claimVars, listsAsSequences, awaitersToResumeTail,
                   awaitersToRequeue, awaitersToRequeueTail, oldHead,
                   m_targetSequence, m_lastKnownPublished, m_readyToResume, retVal,
                   known, lLkp, lTarget, lSeq>>

\* the re-scan stopped before the earliest target: the outer loop ends
PtrRraExit(p) ==
    /\ tPc[p] = "rra_resume"
    /\ ResumeListEnded(p)
    /\ tPc' = [tPc EXCEPT ![p] = "p_resume"]
    /\ UNCHANGED <<schedVars, ctorVars, claimVars, listsAsSequences, m_awaitersHead, awaiters,
                   awaitersToResumeTail, awaitersToRequeue, awaitersToRequeueTail,
                   oldHead, m_targetSequence, m_lastKnownPublished, m_readyToResume,
                   retVal, known, lLkp, lTarget, lSeq>>

\* the call returns: its locals are gone
LocalsGone(t) ==
    /\ awaiters' = [awaiters EXCEPT ![t] = Garbage]
    /\ awaitersToResume' = [awaitersToResume EXCEPT ![t] = Garbage]
    /\ awaitersToResumeTail' = [awaitersToResumeTail EXCEPT ![t] = LocalHead]
    /\ awaitersToRequeue' = [awaitersToRequeue EXCEPT ![t] = Garbage]
    /\ awaitersToRequeueTail' = [awaitersToRequeueTail EXCEPT ![t] = LocalHead]
    /\ oldHead' = [oldHead EXCEPT ![t] = Garbage]
    /\ lLkp' = [lLkp EXCEPT ![t] = 0]
    /\ lTarget' = [lTarget EXCEPT ![t] = 0]
    /\ lSeq' = [lSeq EXCEPT ![t] = 0]

\* next = awaitersToResume->m_next; awaitersToResume->resume(lastKnownPublished);
\* awaitersToResume = next; after the last awaiter the call returns
PtrResumeStep(t) ==
    /\ tPc[t] = "p_resume"
    /\ IF awaitersToResume[t] = Null
       THEN /\ tPc' = [tPc EXCEPT ![t] = Returned(t)]
            /\ LocalsGone(t)
            /\ UNCHANGED <<m_lastKnownPublished, m_readyToResume, retVal>>
       ELSE IF awaitersToResume[t] = Garbage
       THEN /\ tPc' = [tPc EXCEPT ![t] = "p_diverged"]
            /\ UNCHANGED <<awaiters, awaitersToResume, awaitersToResumeTail,
                           awaitersToRequeue, awaitersToRequeueTail, oldHead, lLkp,
                           lTarget, lSeq, m_lastKnownPublished, m_readyToResume,
                           retVal>>
       ELSE LET a == awaitersToResume[t] IN
            /\ awaitersToResume' = [awaitersToResume EXCEPT ![t] = m_next[a]]
            /\ m_lastKnownPublished' = [m_lastKnownPublished EXCEPT ![a] = lLkp[t]]
            /\ IF ResumeCallsImpl(m_readyToResume[a])
               THEN /\ tPc' = [tPc EXCEPT ![a] = "resumed"]
                    /\ retVal' = [retVal EXCEPT ![a] = lLkp[t]]
                    /\ UNCHANGED m_readyToResume
               ELSE /\ m_readyToResume' = [m_readyToResume EXCEPT ![a] = TRUE]
                    /\ UNCHANGED <<tPc, retVal>>
            /\ UNCHANGED <<awaiters, awaitersToResumeTail, awaitersToRequeue,
                           awaitersToRequeueTail, oldHead, lLkp, lTarget, lSeq>>
    /\ UNCHANGED <<schedVars, ctorVars, claimVars, listsAsSequences, m_next, m_awaitersHead,
                   m_targetSequence, known>>

\* co_await wait_until_published(target, known): a new awaiter, whose m_next is
\* not initialised; await_suspend calls add_awaiter, which starts with the awaiter
\* as its list to enqueue
PtrWait(w, target) ==
    /\ tPc[w] = "idle"
    /\ Difference(target, known[w]) > 0
    /\ Difference(target, initialSequence) \in 1..MaxSeq
    /\ m_targetSequence' = [m_targetSequence EXCEPT ![w] = target]
    /\ m_lastKnownPublished' = [m_lastKnownPublished EXCEPT ![w] = known[w]]
    /\ m_readyToResume' = [m_readyToResume EXCEPT ![w] = FALSE]
    /\ lTarget' = [lTarget EXCEPT ![w] = target]
    /\ lLkp' = [lLkp EXCEPT ![w] = known[w]]
    /\ m_next' = [m_next EXCEPT ![w] = Garbage]
    /\ awaitersToRequeue' = [awaitersToRequeue EXCEPT ![w] = w]
    /\ awaitersToRequeueTail' = [awaitersToRequeueTail EXCEPT ![w] = w]
    /\ awaitersToResume' = [awaitersToResume EXCEPT ![w] = Garbage]
    /\ awaitersToResumeTail' = [awaitersToResumeTail EXCEPT ![w] = LocalHead]
    /\ tPc' = [tPc EXCEPT ![w] = "p_aw_load"]
    /\ UNCHANGED <<schedVars, ctorVars, claimVars, listsAsSequences, m_awaitersHead, awaiters,
                   oldHead, retVal, known, lSeq>>

\* the waiter goes on with the value await_resume gave it; its awaiter is destroyed
PtrWaitDone(w) ==
    /\ tPc[w] = "resumed"
    /\ known' = [known EXCEPT ![w] = retVal[w]]
    /\ tPc' = [tPc EXCEPT ![w] = "idle"]
    /\ m_targetSequence' = [m_targetSequence EXCEPT ![w] = initialSequence]
    /\ m_lastKnownPublished' = [m_lastKnownPublished EXCEPT ![w] = initialSequence]
    /\ m_readyToResume' = [m_readyToResume EXCEPT ![w] = FALSE]
    /\ retVal' = [retVal EXCEPT ![w] = initialSequence]
    /\ m_next' = [m_next EXCEPT ![w] = Garbage]
    /\ UNCHANGED <<schedVars, ctorVars, claimVars, listsAsSequences, m_awaitersHead, awaiters,
                   awaitersToResume, awaitersToResumeTail, awaitersToRequeue,
                   awaitersToRequeueTail, oldHead, lLkp, lTarget, lSeq>>

\* oldHead = m_awaiters.load(), *awaitersToEnqueueTail = oldHead
PtrAwLoad(w) ==
    /\ tPc[w] = "p_aw_load"
    /\ oldHead' = [oldHead EXCEPT ![w] = m_awaitersHead]
    /\ m_next' = [m_next EXCEPT ![awaitersToRequeueTail[w]] = m_awaitersHead]
    /\ tPc' = [tPc EXCEPT ![w] = "p_aw_cas"]
    /\ UNCHANGED <<schedVars, ctorVars, claimVars, listsAsSequences, m_awaitersHead, awaiters,
                   awaitersToResume, awaitersToResumeTail, awaitersToRequeue,
                   awaitersToRequeueTail, m_targetSequence, m_lastKnownPublished,
                   m_readyToResume, retVal, known, lLkp, lTarget, lSeq>>

\* the scan of m_published after the enqueue; if the target is not reached both
\* lists are null-terminated and the loop ends with nothing to enqueue
PtrAwScan(w) ==
    /\ tPc[w] = "p_aw_scan"
    /\ LET lkp == LastPublishedAfter(m_published, lLkp[w]) IN
       /\ lLkp' = [lLkp EXCEPT ![w] = lkp]
       /\ IF ~Precedes(lkp, lTarget[w])
          THEN /\ tPc' = [tPc EXCEPT ![w] = "p_aw_take"]
               /\ UNCHANGED <<m_next, awaitersToResume, awaitersToRequeue>>
          ELSE /\ awaitersToRequeue' = [awaitersToRequeue EXCEPT ![w] = Null]
               /\ ResumeListEnded(w)
               /\ tPc' = [tPc EXCEPT ![w] = "p_resume"]
    /\ UNCHANGED <<schedVars, ctorVars, claimVars, listsAsSequences, m_awaitersHead, awaiters,
                   awaitersToResumeTail, awaitersToRequeueTail, oldHead,
                   m_targetSequence, m_lastKnownPublished, m_readyToResume, retVal,
                   known, lTarget, lSeq>>

\* awaiters = m_awaiters.exchange(nullptr), the split, targetSequence =
\* lastKnownPublished + minDiff, *awaitersToEnqueueTail = nullptr; with nothing to
\* enqueue the loop ends and the list to resume is null-terminated
PtrAwTake(w) ==
    /\ tPc[w] = "p_aw_take"
    /\ LET lkp == lLkp[w]
           st  == AwSplit(ListState(w), m_awaitersHead, lTarget[w], lkp, MaxTurns)
           st1 == [st EXCEPT !.req = IF st.reqTail = LocalHead THEN Null ELSE @,
                             !.next = IF st.reqTail = LocalHead THEN @
                                      ELSE [@ EXCEPT ![st.reqTail] = Null]]
           none == st1.req = Null
           st2 == IF ~none THEN st1
                  ELSE [st1 EXCEPT !.res = IF st1.resTail = LocalHead THEN Null ELSE @,
                                   !.next = IF st1.resTail = LocalHead THEN @
                                            ELSE [@ EXCEPT ![st1.resTail] = Null]]
       IN
       IF ~st.ended
       THEN /\ tPc' = [tPc EXCEPT ![w] = "p_diverged"]
            /\ UNCHANGED <<listVars, m_lastKnownPublished, lTarget>>
       ELSE /\ ListWritten(w, st2)
            /\ m_awaitersHead' = Null
            /\ lTarget' = [lTarget EXCEPT ![w] = Wrap(lkp + st.minDiff)]
            /\ tPc' = [tPc EXCEPT ![w] = IF none THEN "p_resume" ELSE "p_aw_load"]
            /\ UNCHANGED <<awaiters, oldHead>>
    /\ UNCHANGED <<schedVars, ctorVars, claimVars, listsAsSequences, m_targetSequence,
                   m_readyToResume, retVal, known, lLkp, lSeq>>

\* every producer and every consumer
ListThreads == Threads

\* the consumer has not waited yet
FirstWait(w) == known[w] = initialSequence

ListInit == SchedInit /\ \E i \in InitialSequences : SeqInitWith(i, ListThreads)

\* producers that claim and publish the first MaxListSeq sequences one by one,
\* consumers that wait once each for one of them, and every step of
\* resume_ready_awaiters and add_awaiter on the pointers
ListNext ==
    \/ \E p \in Producers \cap active : NumClaimed < MaxListSeq /\ ClaimOne(p)
    \/ \E p \in Producers : ClaimResume(p)
    \/ BarrierPublish
    \/ \E p \in Producers : PublishStore(p)
    \/ \E p \in Producers : PtrRraTake(p)
    \/ \E p \in Producers : PtrRraSplit(p)
    \/ \E t \in Threads : PtrCas(t)
    \/ \E p \in Producers : RraRescan(p)
    \/ \E p \in Producers : PtrRraRetake(p)
    \/ \E p \in Producers : PtrRraExit(p)
    \/ \E t \in Threads : PtrResumeStep(t)
    \/ \E w \in Waiters \cap active, target \in Seqs :
          /\ FirstWait(w)
          /\ Difference(target, initialSequence) <= MaxListSeq
          /\ PtrWait(w, target)
    \/ \E w \in Waiters : PtrAwLoad(w)
    \/ \E w \in Waiters : PtrAwScan(w)
    \/ \E w \in Waiters : PtrAwTake(w)
    \/ \E w \in Waiters : AwExchange(w)
    \/ \E w \in Waiters : PtrWaitDone(w)

SpecList == ListInit /\ [][ListNext]_vars

(***************************************************************************)
(* A sequencer over a buffer of four slots: sequences 1..10 are published  *)
(* in any order by callers that do not wait on the consumer barrier, and a *)
(* consumer reads last_published_after(0) at any moment.                   *)
(***************************************************************************)
RingSize == 4

RingLast == 10

RingInitial == 0

\* seq & m_sequenceMask with m_sequenceMask = 3
RingIndex(s) == s % RingSize

\* the constructor's loop over the four slots
RingInitialPublished ==
    [k \in 0..(RingSize - 1) |->
        CHOOSE s \in {Wrap(RingInitial + SeqMod - d) : d \in 0..(RingSize - 1)} :
            RingIndex(s) = k]

\* a scan that goes on past a slot that does not hold its sequence
RingScanPastGaps(pub, x) ==
    LET held == {z \in Seqs : Difference(z, x) > 0 /\ pub[RingIndex(z)] = z} IN
    IF held = {} THEN x
    ELSE CHOOSE y \in held : \A z \in held : Difference(z, y) <= 0

\* a scan that stops after the first slot
RingScanOnce(pub, x) ==
    IF pub[RingIndex(Wrap(x + 1))] = Wrap(x + 1) THEN Wrap(x + 1) ELSE x

\* last_published_after on an array of four slots
RECURSIVE RingLastPublishedAfter(_, _)
RingLastPublishedAfter(pub, x) ==
    IF pub[RingIndex(Wrap(x + 1))] = Wrap(x + 1)
    THEN RingLastPublishedAfter(pub, Wrap(x + 1))
    ELSE x

\* publish(s): the store; with no awaiter resume_ready_awaiters returns at once
RingPublish(s) ==
    /\ s \notin publishedByCall
    /\ m_awaiters = <<>>
    /\ m_published' = [m_published EXCEPT ![RingIndex(s)] = s]
    /\ publishedByCall' = publishedByCall \cup {s}
    /\ UNCHANGED <<schedVars, ctorVars, listVars, claimOp, active, initialSequence, m_nextToClaim,
                   m_awaiters, barrier, claimLog, tPc, claimedRange, pubQ,
                   m_targetSequence, m_lastKnownPublished, m_readyToResume,
                   retVal, known, lAwaiters, lToResume, lToRequeue, lLkp,
                   lTarget, lSeq>>

\* the consumer w reads last_published_after(0)
RingObserve(w) ==
    /\ known' = [known EXCEPT ![w] = RingLastPublishedAfter(m_published, RingInitial)]
    /\ UNCHANGED <<schedVars, ctorVars, listVars, claimOp, active, initialSequence, m_published,
                   m_nextToClaim, m_awaiters, barrier, publishedByCall, claimLog,
                   tPc, claimedRange, pubQ, m_targetSequence, m_lastKnownPublished,
                   m_readyToResume, retVal, lAwaiters, lToResume, lToRequeue,
                   lLkp, lTarget, lSeq>>

RingInit == SchedInit /\ SeqInitArray(RingInitial, {}, RingInitialPublished)

RingNext ==
    \/ \E s \in 1..RingLast : RingPublish(s)
    \/ \E w \in Waiters : RingObserve(w)

SpecRing == RingInit /\ [][RingNext]_vars

(***************************************************************************)
(* What is on the wire.                                                    *)
(***************************************************************************)
MetaWords == HeaderWords + CtrlBlkWords

\* the complete frame that starts with the word w
FrameOf(w) ==
    IF w.kind = "M" THEN MetaFrame(w.fork) ELSE DataFrame(w.fork, w.op, w.val)

\* w is the beginning of a sequence of whole frames, the last one possibly cut short
RECURSIVE WellFramed(_)
WellFramed(w) ==
    IF w = <<>> THEN TRUE
    ELSE /\ w[1].kind \in {"M", "H"}
         /\ w[1].idx = 1
         /\ LET fr == FrameOf(w[1])
                n  == Min(Len(fr), Len(w))
            IN /\ Take(w, n) = Take(fr, n)
               /\ WellFramed(Drop(w, n))

\* the data frame of send op o is on the wire, whole, from position k on
DataFrameAt(o, k) ==
    LET fr == DataFrame(ops[o].fork, o, ops[o].size) IN
    /\ k + Len(fr) - 1 <= Len(wire)
    /\ SubSeq(wire, k, k + Len(fr) - 1) = fr

Transmitted(o) == \E k \in 1..Len(wire) : DataFrameAt(o, k)

\* the meta frame of fork f is on the wire, whole, from position k on
MetaFrameAt(f, k) ==
    /\ k + MetaWords - 1 <= Len(wire)
    /\ SubSeq(wire, k, k + MetaWords - 1) = MetaFrame(f)

\* the positions of the words of fork f's data frames
DataPositions(f) ==
    {k \in 1..Len(wire) : wire[k].kind \in {"H", "P"} /\ wire[k].fork = f}

(***************************************************************************)
(* C1  Per-fork FIFO for sends: the words of the data frames of one fork   *)
(* reach the stream in the order in which their sends were posted (op ids  *)
(* are given in posting order): no word of an earlier send of a fork is    *)
(* written after a word of a later send of that fork, whatever sends on    *)
(* other forks and whatever cancellations happen in between.               *)
(***************************************************************************)
C1_SendFifo ==
    \A i, j \in 1..Len(wire) :
        ( /\ i < j
          /\ wire[i].kind \in {"H", "P"}
          /\ wire[j].kind \in {"H", "P"}
          /\ wire[i].fork = wire[j].fork )
        => wire[i].op <= wire[j].op

\* two sends of one fork are both on the wire, and a send posted between them
\* was cancelled while it was still queued
C1_Witness ==
    \E a, b, c \in OpIds :
        /\ a < c /\ c < b
        /\ ops[a].kind = "send" /\ ops[b].kind = "send"
        /\ ops[a].fork = ops[b].fork
        /\ Transmitted(a) /\ Transmitted(b)
        /\ ops[c].res = "aborted" /\ ops[c].inProgress = FALSE

(***************************************************************************)
(* C2  Fork isolation on receive: every word written into the buffer of a  *)
(* recv that completed successfully is a payload word of a frame the peer  *)
(* sent on the fork of that recv; no recv posted on fork X completes with  *)
(* words that were sent on another fork.                                   *)
(***************************************************************************)
C2_ForkIsolation ==
    \A id \in OpIds :
        (ops[id].kind = "recv" /\ ops[id].res = "ok") =>
            \A i \in 1..Len(delivered[id]) :
                /\ delivered[id][i].kind = "P"
                /\ delivered[id][i].fork = ops[id].fork

(***************************************************************************)
(* C3  Exactly one NewSlot: for every fork with a data-frame word on the   *)
(* wire, exactly one whole meta frame of that fork is on the wire, and it  *)
(* ends before the fork's first data-frame word.                           *)
(***************************************************************************)
C3_NewSlotOnce ==
    \A f \in Forks :
        DataPositions(f) # {} =>
            /\ Cardinality({k \in 1..Len(wire) : MetaFrameAt(f, k)}) = 1
            /\ \E k \in 1..Len(wire) :
                  /\ MetaFrameAt(f, k)
                  /\ \A d \in DataPositions(f) : k + MetaWords - 1 < d

(***************************************************************************)
(* C4  No lost bytes under send cancel: the words on the wire are always   *)
(* the beginning of a sequence of whole frames; and, unless a transport    *)
(* error has closed the scheduler, whenever the writer is between two ops  *)
(* the restore buffer holds exactly what is missing of the last frame      *)
(* (nothing, if the last frame is whole).                                  *)
(***************************************************************************)
BetweenOps == wPc \in {"parked", "begin", "next"} /\ ~mClosed /\ wEc # "error"

C4_NoLostBytes ==
    /\ WellFramed(wire)
    /\ BetweenOps => WellFramed(wire \o restoreBuffer)
    /\ (BetweenOps /\ wire # <<>>) =>
          \E k \in 1..Len(wire) :
              /\ wire[k].idx = 1
              /\ wire[k].kind \in {"M", "H"}
              /\ Drop(wire, k - 1) \o restoreBuffer = FrameOf(wire[k])

(***************************************************************************)
(* C5  Flush settlement: a flush() caller has been resumed if and only if  *)
(* every send and recv op that was pending when flush() was called has     *)
(* settled (succeeded, been aborted, or failed), and it is never resumed   *)
(* twice; and when the ops pending at the call were sends none of which    *)
(* was cancelled or failed, all their frames are on the wire once the      *)
(* caller has been resumed.                                                *)
(***************************************************************************)
FlushSettled(f) == \A j \in flushes[f].pending : ops[j].st = "done"

C5_FlushSettlement ==
    \A f \in FlushIds :
        flushes[f].st = "called" =>
            /\ flushes[f].resumed <= 1
            /\ (flushes[f].resumed = 1) <=> FlushSettled(f)
            /\ ( /\ flushes[f].resumed = 1
                 /\ \A j \in flushes[f].pending :
                        ops[j].kind = "send" /\ ops[j].res = "ok"
                 /\ \A j \in OpIds : ops[j].cb = "idle" )
               => \A j \in flushes[f].pending : Transmitted(j)

\* a flush caller has been resumed after a send it waited for succeeded, a recv
\* it waited for succeeded and another op it waited for was cancelled
C5_Witness ==
    \E f \in FlushIds :
        /\ flushes[f].resumed = 1
        /\ \E a, b, c \in flushes[f].pending :
              /\ ops[a].kind = "send" /\ ops[a].res = "ok" /\ Transmitted(a)
              /\ ops[b].kind = "recv" /\ ops[b].res = "ok"
              /\ ops[c].res = "aborted"

(***************************************************************************)
(* The sequencer's properties.                                             *)
(***************************************************************************)
\* the sequences that can be claimed in a run, and the one before them
SeqWindow == {Wrap(initialSequence + k) : k \in 0..MaxSeq}

\* C6: whenever last_published_after(x) returns y, every sequence after x up to y
\* has been stored by a publish call: none is reported because of what the
\* constructor put in m_published or of what an earlier lap left there, and none
\* is reported past a sequence that is not published yet
C6_PublishVisibility ==
    \A x \in SeqWindow :
        Between(x, LastPublishedAfter(m_published, x)) \subseteq publishedByCall

\* sequences published out of order: the second one is in its slot and a scan
\* from the first reports it, while a scan from initialSequence reports nothing
\* because the first is not published yet
C6_Witness ==
    /\ LastPublishedAfter(m_published, Wrap(initialSequence + 1))
         = Wrap(initialSequence + 2)
    /\ LastPublishedAfter(m_published, initialSequence) = initialSequence
    /\ Wrap(initialSequence + 3) \notin publishedByCall

\* the pcs of a waiter whose wait_until_published has not given it a value yet
Waiting == {"aw_push", "aw_scan", "aw_take", "aw_resume", "aw_exch", "parked"}

\* every sequence up to the target of w has been published
TargetPublished(w) ==
    Between(initialSequence, m_targetSequence[w]) \subseteq publishedByCall

\* C7: once the target of a waiter and every sequence before it have been
\* published, the waiter is eventually resumed, whatever the interleaving of its
\* add_awaiter with the publish calls, given that every call that has started
\* runs to completion
C7_NoLostWakeup ==
    \A w \in Waiters :
        (tPc[w] \in Waiting /\ TargetPublished(w)) ~> (tPc[w] = "resumed")

\* a publish completed between the detach of the list and its requeue: the
\* producer that requeued the parked waiter found its target in the re-scan
C7_Witness ==
    \E p \in Producers, w \in Waiters :
        /\ tPc[p] = "rra_retake"
        /\ tPc[w] = "parked"
        /\ m_awaiters = <<w>>
        /\ TargetPublished(w)

\* C8: a waiter is resumed only when its own target and every sequence before it
\* have been published, and the value await_resume gives it is not less than its
\* target
C8_NoPrematureWakeup ==
    \A w \in Waiters :
        tPc[w] = "resumed" =>
            /\ TargetPublished(w)
            /\ Difference(retVal[w], m_targetSequence[w]) >= 0

\* the ranges of the log follow one another from initialSequence + 1
Contiguous(log) ==
    \A i \in 1..Len(log) :
        /\ log[i][2] >= 1
        /\ log[i][1] = IF i = 1 THEN Wrap(initialSequence + 1)
                       ELSE Wrap(log[i - 1][1] + log[i - 1][2])

\* the index in the log of the range a producer holds
LogIndexOf(p) == CHOOSE i \in 0..Len(claimLog) :
                    (i = 0 /\ \A j \in 1..Len(claimLog) : claimLog[j] # claimedRange[p])
                    \/ (i > 0 /\ claimLog[i] = claimedRange[p])

\* C9: the ranges that producers obtain from claim_one and claim_up_to are
\* pairwise disjoint and make up one run without gaps that starts at
\* initialSequence + 1 and ends where m_nextToClaim is; m_nextToClaim never
\* decreases
C9_ClaimUniqueness ==
    /\ [](/\ Contiguous(claimLog)
          /\ m_nextToClaim = (IF claimLog = <<>> THEN Wrap(initialSequence + 1)
                              ELSE Wrap(claimLog[Len(claimLog)][1]
                                          + claimLog[Len(claimLog)][2]))
          /\ \A p \in Producers :
                claimedRange[p][2] > 0 => LogIndexOf(p) > 0
          /\ \A p, q \in Producers :
                (p # q /\ claimedRange[p][2] > 0 /\ claimedRange[q][2] > 0) =>
                    \A i \in 0..(claimedRange[p][2] - 1),
                       j \in 0..(claimedRange[q][2] - 1) :
                        Wrap(claimedRange[p][1] + i) # Wrap(claimedRange[q][1] + j))
    /\ [][Difference(m_nextToClaim', m_nextToClaim) >= 0]_vars

\* two producers hold what they claimed at the same time, one of them a range
C9_Witness ==
    /\ \A p \in Producers : tPc[p] \in {"claimwait", "pub"}
    /\ \E p \in Producers : claimedRange[p][2] = BufferSize
    /\ Len(claimLog) >= NumProducers

\* C10: a claim completes only after the consumer barrier has published the
\* sequence one lap before the last sequence claimed: every sequence a producer
\* is about to publish is at most buffer_size ahead of the barrier, and the slot
\* it goes to holds nothing the consumer has yet to consume
C10_RingSpace ==
    \A p \in Producers :
        tPc[p] = "pub" =>
            \A i \in 1..Len(pubQ[p]) :
                /\ Difference(pubQ[p][i], barrier) <= BufferSize
                /\ Difference(m_published[Index(pubQ[p][i])], barrier) <= 0

\* a producer is about to store into a slot on its second lap
C10_Witness ==
    \E p \in Producers :
        /\ tPc[p] = "pub"
        /\ pubQ[p] # <<>>
        /\ Difference(Head(pubQ[p]), initialSequence) > BufferSize
        /\ Head(pubQ[p]) = Wrap(barrier + BufferSize)

(***************************************************************************)
(* Closing, cancellation and errors of the SockScheduler.                  *)
(***************************************************************************)
\* the operations created so far
Created == 1..numOps

\* C11: close() is terminal: a closed scheduler stays closed and keeps its error;
\* while it is closed no op is pending, every op created so far is done and has
\* been resumed exactly once; when close() closes the scheduler every op pending
\* at that moment fails with the closed error, and an op posted to a scheduler that
\* close() has closed fails at once with the closed error and enters no queue
C11_CloseTerminal ==
    [][/\ mClosed => (mClosed' /\ mEC' = mEC)
       /\ mClosed' =>
             /\ \A j \in 1..numOps' : ops'[j].st = "done" /\ ops'[j].resumed = 1
             /\ mSendBuffers_' = <<>> /\ mNumRecvs' = 0
             /\ mSendOps2_' = EmptyQueues /\ mRecvOps2_' = EmptyQueues
       /\ (~mClosed /\ mClosed' /\ mEC' = "closed") =>
             \A j \in Pending(ops) : ops'[j].res = "closed"
       /\ (mClosed /\ mEC = "closed" /\ numOps' = numOps + 1) =>
             /\ ops'[numOps'].res = "closed"
             /\ \A j \in Created : ops'[j] = ops[j]
      ]_vars

\* close() has failed a pending recv, and the first send of the run, posted
\* afterwards, has failed without having been handed to the writer
C11_Witness ==
    /\ mClosed /\ mEC = "closed"
    /\ \E j \in Created : ops[j].kind = "recv" /\ ops[j].res = "closed"
    /\ \E k \in Created :
          /\ ops[k].kind = "send" /\ ops[k].res = "closed" /\ ~ops[k].inProgress
          /\ \A i \in 1..(k - 1) : ops[i].kind # "send"

\* C12: the stream's close() has been called exactly once if the scheduler is
\* closed and never if it is open, whichever of close(), the writer and the
\* reader closed it and however many of them tried
C12_SockClosedOnce ==
    sockCloses = (IF mClosed THEN 1 ELSE 0)

\* the writer and the reader have each come back with a stream error
C12_Witness ==
    /\ mClosed
    /\ wPc = "parked" /\ wEc = "error"
    /\ rPc = "parked" /\ rEc = "eof"
    /\ sockCloses = 1

\* how many entries of the pending-send list name fork f
Entries(queue, f) == Cardinality({i \in 1..Len(queue) : queue[i] = f})

\* the tasks can go on with the ops that are pending: the pending-send list has one
\* entry per queued send, the recv count is the number of queued recvs, a task is
\* parked only with nothing to do, and a task that has been resumed finds its op
TasksCanGoOn ==
    /\ \A g \in Forks : Entries(mSendBuffers_, g) = Len(mSendOps2_[g])
    /\ mNumRecvs = Cardinality({j \in Pending(ops) : ops[j].kind = "recv"})
    /\ mSendBuffers_ # <<>> => (wPc # "parked" /\ mSendStatus = "InUse")
    /\ wPc = "begin" => mSendOps2_[wFork] # <<>>
    /\ (wPc = "next" /\ ops[wOp].st = "queued") =>
          (mSendBuffers_ # <<>> /\ Head(mSendOps2_[Head(mSendBuffers_)]) = wOp)
    /\ mNumRecvs > 0 => (rPc # "parked" /\ mRecvStatus \in {"InUse", "RequestedRecvOp"})
    /\ rPc # "ub"

CancelsQueued(j) ==
    /\ ops[j].st = "queued" /\ ~ops[j].inProgress
    /\ ops[j].cb = "idle" /\ ops'[j].cb # "idle"

\* q without the element j, the others in their order
Without(q, j) == SelectSeq(q, LAMBDA x : x # j)

\* C14: a stop callback that finds its op queued and not in progress takes it out
\* of its slot's queue, completes it with operation_aborted and resumes its handle
\* once; the other ops of the fork keep their order and the other forks' queues
\* are untouched; nothing is written to the stream; the send status becomes Idle
\* exactly if the pending-send list has become empty, the recv status exactly if
\* the recv count has become zero; and no word of a send cancelled in this way
\* is ever on the stream
C14_CancelBeforeStart ==
    /\ [][\A j \in OpIds :
            CancelsQueued(j) =>
              LET f == ops[j].fork IN
              /\ ops'[j].st = "done" /\ ops'[j].res = "aborted"
              /\ ops'[j].resumed = ops[j].resumed + 1
              /\ \A k \in OpIds \ {j} : ops'[k] = ops[k]
              /\ wire' = wire /\ delivered' = delivered
              /\ IF ops[j].kind = "send"
                 THEN /\ mSendOps2_' = [mSendOps2_ EXCEPT ![f] = Without(@, j)]
                      /\ Len(mSendBuffers_') = Len(mSendBuffers_) - 1
                      /\ Without(mSendBuffers_', f) = Without(mSendBuffers_, f)
                      /\ mSendStatus' = (IF mSendBuffers_' = <<>> THEN "Idle"
                                         ELSE mSendStatus)
                      /\ mSendBuffers_' # <<>> => mSendStatus' # "Idle"
                      /\ UNCHANGED <<mRecvOps2_, mNumRecvs, mRecvStatus>>
                 ELSE /\ mRecvOps2_' = [mRecvOps2_ EXCEPT ![f] = Without(@, j)]
                      /\ mNumRecvs' = mNumRecvs - 1
                      /\ mRecvStatus' = (IF mNumRecvs' = 0 THEN "Idle"
                                         ELSE mRecvStatus)
                      /\ mNumRecvs' # 0 => mRecvStatus' # "Idle"
                      /\ UNCHANGED <<mSendOps2_, mSendBuffers_, mSendStatus>>
         ]_vars
    /\ [](\A j \in Created :
            (ops[j].kind = "send" /\ ops[j].res = "aborted" /\ ~ops[j].inProgress)
            => \A i \in 1..Len(wire) :
                  ~(wire[i].op = j /\ wire[i].kind \in {"H", "P"}))

\* a queued send was cancelled behind a send that has since been written, and a
\* queued recv was cancelled, which left the receive half idle
C14_Witness ==
    /\ \E j, k \in Created :
          /\ ops[j].kind = "send" /\ ops[j].res = "aborted" /\ ~ops[j].inProgress
          /\ ops[k].kind = "recv" /\ ops[k].res = "aborted" /\ ~ops[k].inProgress
          /\ \E i \in 1..(j - 1) : ops[i].kind = "send" /\ ops[i].res = "ok"
    /\ mRecvStatus = "Idle"
    /\ wire # <<>>

\* C15: an op completes with operation_aborted only if its own stop callback has
\* run: a token triggered for one op never aborts another, also when the
\* request_stop of a callback that took the scheduler's stop source arrives
\* after the transfer of its op has ended
C15_CancelLocal ==
    \A j \in Created : ops[j].res = "aborted" => ops[j].cb # "idle"

\* C16: a cancellation does not close the scheduler (operation_aborted is never
\* the error it records), and once an op has been cancelled the open scheduler
\* keeps working: the reader has not run into undefined behaviour, and neither
\* task is parked while ops of its half are pending
C16_CancelKeepsWorking ==
    /\ mEC # "aborted"
    /\ (~mClosed /\ \E j \in Created : ops[j].res = "aborted") =>
          /\ rPc # "ub"
          /\ wPc = "parked" => mSendBuffers_ = <<>>
          /\ rPc = "parked" => mNumRecvs = 0

\* C17: a task that comes back with an error other than operation_aborted while
\* the scheduler is open closes it and records that error; the step that closes
\* the scheduler completes every pending op, the one the task was processing
\* included, with the recorded error and resumes each once; the recorded error
\* never changes afterwards, whatever error is reported later, and an op posted
\* to the closed scheduler fails with it
C17_FirstErrorKept ==
    [][/\ (~mClosed /\ wPc = "next" /\ wPc' # "next" /\ IsError(wEc)) =>
             (mClosed' /\ mEC' = wEc)
       /\ (~mClosed /\ rPc = "next" /\ rPc' # "next" /\ IsError(rEc)) =>
             (mClosed' /\ mEC' = rEc)
       /\ (~mClosed /\ mClosed') =>
             \A j \in Pending(ops) :
                /\ ops'[j].st = "done" /\ ops'[j].res = mEC'
                /\ ops'[j].resumed = ops[j].resumed + 1
       /\ mClosed => (mClosed' /\ mEC' = mEC)
       /\ (mClosed /\ numOps' = numOps + 1) =>
             (ops'[numOps'].st = "done" /\ ops'[numOps'].res = mEC)
      ]_vars

\* the reader's error closed the scheduler and failed a send that was being
\* written; the writer came back with another error afterwards
C17_Witness ==
    /\ mClosed /\ mEC = "eof"
    /\ wPc = "parked" /\ wEc = "error"
    /\ \E j \in Created :
          ops[j].kind = "send" /\ ops[j].inProgress /\ ops[j].res = "eof"

\* the reader has been given a slot whose front recv has a buffer of another size
\* than the header announces
MismatchAhead ==
    /\ rPc = "gotslot" /\ ~mClosed
    /\ rFork \in Forks /\ mRecvOps2_[rFork] # <<>>
    /\ ops[Head(mRecvOps2_[rFork])].size # mRecvHeader[1]

\* the error of a frame whose size the recv cannot take
MismatchError == "badCoprotoMessageHeader"

\* C18: when the size in a data frame's header differs from the size of the
\* head recv of its slot, the reader reads nothing into the buffer and reports
\* badCoprotoMessageHeader; the scheduler then closes and the recv, with every
\* other pending op, fails with that error; and no word is taken from the
\* stream once the scheduler has closed on it
C18_SizeMismatch ==
    [][/\ (MismatchAhead /\ rPc' # "gotslot") =>
             /\ rPc' = "next" /\ rEc' = MismatchError
             /\ delivered' = delivered /\ rdPos' = rdPos
       /\ (~mClosed /\ rPc = "next" /\ rEc = MismatchError /\ rPc' # "next") =>
             /\ mClosed' /\ mEC' = MismatchError
             /\ \A j \in Pending(ops) :
                   ops'[j].st = "done" /\ ops'[j].res = MismatchError
       /\ (mClosed /\ mEC = MismatchError) =>
             (rdPos' = rdPos /\ delivered' = delivered)
      ]_vars

\* C19: destroying the scheduler terminates the process exactly when a send or
\* a recv is pending at that moment, a recv queued while the reader waits for
\* a recv of another fork included; and when a flush() has been resumed and
\* every op it did not wait for is complete, destruction does not terminate
C19_DestructorContract ==
    dtor # "none" =>
        /\ dtor = "terminated" <=> Pending(ops) # {}
        /\ \A f \in 1..numFlush :
              ( /\ flushes[f].resumed = 1
                /\ \A j \in Created \ flushes[f].pending : ops[j].st = "done" )
              => dtor = "returned"

\* the data frames that have arrived for fork f, by the peer's frame number
ArrivedFrames(f) ==
    {inStream[p].op : p \in {q \in 1..Len(inStream) :
                                 inStream[q].kind = "H" /\ inStream[q].fork = f}}

\* a recv that was cancelled while it waited in its queue
SkippedRecv(h) ==
    /\ ops[h].kind = "recv" /\ ops[h].res = "aborted"
    /\ ~ops[h].inProgress /\ delivered[h] = <<>>

\* the recvs of fork f posted up to op j that were not skipped
RecvsUpTo(f, j) ==
    {h \in 1..j : ops[h].kind = "recv" /\ ops[h].fork = f /\ ~SkippedRecv(h)}

\* C20: a recv that has completed holds the whole payload of one data frame of
\* its fork, and that frame is the k-th that arrived for the fork when the recv
\* is the k-th posted on the fork, the recvs cancelled while queued not
\* counted; hence of two recvs of one fork the earlier holds the earlier frame
C20_RecvFifo ==
    \A j \in Created :
        (ops[j].kind = "recv" /\ ops[j].res = "ok") =>
            LET d == delivered[j]
                f == ops[j].fork
            IN
            /\ Len(d) = ops[j].size
            /\ \A i \in 1..Len(d) :
                  /\ d[i].kind = "P" /\ d[i].fork = f
                  /\ d[i].op = d[1].op /\ d[i].idx = i
            /\ d # <<>> =>
                  Cardinality({k \in ArrivedFrames(f) : k <= d[1].op})
                     = Cardinality(RecvsUpTo(f, j))

(***************************************************************************)
(* The reader parked for a fork.                                           *)
(***************************************************************************)
\* the reader has read the header of a frame of fork mRequestedRecvSlot and is
\* suspended in getRequestedRecvSlot
ReaderParkedForFork == rPc = "waitslot"

\* this step posts a recv on fork f of an open scheduler
PostsRecvOn(f) ==
    /\ numOps' = numOps + 1
    /\ ops'[numOps'].kind = "recv" /\ ops'[numOps'].fork = f
    /\ ~mClosed

\* C21: the reader takes the stream in order; while it is suspended for fork X
\* it takes no word from the stream, no recv completes with data, and it goes
\* on only with a recv queued on X (or the scheduler closed); and the step
\* that posts a recv on X resumes it with that fork's slot
C21_ReceiverParking ==
    [][/\ rdPos' >= rdPos
       /\ ReaderParkedForFork =>
             /\ rdPos' = rdPos /\ delivered' = delivered
             /\ \A j \in Created :
                   (ops[j].kind = "recv" /\ ops'[j].res = "ok") => ops[j].res = "ok"
             /\ rPc' # "waitslot" =>
                   \/ mClosed'
                   \/ mRecvOps2_'[mRequestedRecvSlot] # <<>>
       /\ (ReaderParkedForFork /\ PostsRecvOn(mRequestedRecvSlot)) =>
             (rPc' = "gotslot" /\ rFork' = mRequestedRecvSlot)
      ]_vars

\* a recv on fork Y was posted first, the peer's first frame was for fork X, and
\* both recvs have completed with their frames, the recv of X first
C21_Witness ==
    \E x, y \in Created :
        /\ y < x
        /\ ops[x].kind = "recv" /\ ops[y].kind = "recv"
        /\ ops[x].fork # ops[y].fork
        /\ ops[x].res = "ok" /\ ops[y].res = "ok"
        /\ delivered[x] # <<>> /\ delivered[y] # <<>>
        /\ delivered[x][1].op < delivered[y][1].op

(***************************************************************************)
(* Claiming through an operation.                                          *)
(***************************************************************************)
\* this step is producer p's co_await of the operation it holds
AwaitsClaim(p) ==
    /\ ~HoldsNoClaim(claimOp[p])
    /\ claimOp'[p].kind = "awaited"

\* C22: the co_await of a claim_up_to(count) operation, count >= 1, moves
\* m_nextToClaim forward by min(count, buffer size), and the range it yields
\* starts at the old m_nextToClaim and holds as many sequences as the counter
\* moved: at least one, at most count
C22_ClaimUpTo ==
    [][\A p \in Producers :
          (AwaitsClaim(p) /\ claimOp[p].kind = "upto") =>
             LET count == claimOp[p].count
                 moved == Difference(m_nextToClaim', m_nextToClaim)
             IN
             /\ moved = Min(count, BufferSize)
             /\ claimedRange'[p] = <<m_nextToClaim, moved>>
             /\ 1 <= moved /\ moved <= count
      ]_vars

\* a producer asked for more than the buffer holds and has been given a range of
\* the size of the buffer
C22_Witness ==
    \E p \in Producers :
        /\ claimOp[p].kind = "awaited"
        /\ claimOp[p].count > BufferSize
        /\ claimedRange[p][2] = BufferSize
        /\ m_nextToClaim = Wrap(claimedRange[p][1] + BufferSize)

(***************************************************************************)
(* publish(range) and publish(seq), each run to its end with no other      *)
(* thread at work.                                                         *)
(***************************************************************************)
\* what a publish call works on: the array, the list of awaiters, what each
\* awaiter has been told, and the awaiters resumed so far
Snapshot ==
    [pub |-> m_published, list |-> m_awaiters,
     lkp |-> m_lastKnownPublished, woken |-> {}]

\* m_published[seq & m_sequenceMask].store(seq)
StoreSeq(st, s) == [st EXCEPT !.pub[Index(s)] = s]

\* the stores of q, in order
RECURSIVE StoreEach(_, _)
StoreEach(st, q) ==
    IF q = <<>> THEN st ELSE StoreEach(StoreSeq(st, Head(q)), Tail(q))

\* resume_ready_awaiters with no other thread at work: the list is detached and
\* split at last_published_after(awaiters->m_lastKnownPublished), the awaiters
\* not ready are put back, the re-scan finds nothing new, the others are resumed
RraAlone(st) ==
    IF st.list = <<>> THEN st
    ELSE LET lk == LastPublishedAfter(st.pub, st.lkp[Head(st.list)]) IN
         [pub   |-> st.pub,
          list  |-> ToRequeue(st.list, lk),
          lkp   |-> [a \in Waiters |->
                        IF a \in Range(st.list) THEN lk ELSE st.lkp[a]],
          woken |-> st.woken \cup Range(ToResume(st.list, lk))]

\* publish(sequence)
PublishOne(st, s) == RraAlone(StoreSeq(st, s))

\* publish(range): nothing for an empty range, else the stores, then
\* resume_ready_awaiters once
PublishRange(st, first, count) ==
    IF count = 0 THEN st
    ELSE RraAlone(StoreEach(st, PublishOrder(first, count)))

\* publish(seq) for every seq of the range, in order
RECURSIVE PublishEach(_, _, _)
PublishEach(st, first, count) ==
    IF count = 0 THEN st
    ELSE PublishEach(PublishOne(st, first), Wrap(first + 1), count - 1)

\* the sequences of a range
RangeSeqs(first, count) == {Wrap(first + i) : i \in 0..(count - 1)}

\* producer p has been given its range and has stored nothing of it yet
AboutToPublish(p) ==
    /\ tPc[p] = "pub"
    /\ pubQ[p] = PublishOrder(claimedRange[p][1], claimedRange[p][2])

\* C23: from any state in which a producer is about to publish its range,
\* publish(range) and publish(seq) for each seq of the range leave the same
\* m_published and resume the same awaiters; publish of an empty range changes
\* nothing and resumes nobody; and while the front of the range is not stored,
\* last_published_after(s) is outside the range for every s before the front
C23_PublishRange ==
    /\ PublishRange(Snapshot, m_nextToClaim, 0) = Snapshot
    /\ \A p \in Producers :
          AboutToPublish(p) =>
             LET first == claimedRange[p][1]
                 count == claimedRange[p][2]
                 whole == PublishRange(Snapshot, first, count)
                 each  == PublishEach(Snapshot, first, count)
             IN
             /\ whole.pub = each.pub
             /\ whole.woken = each.woken
    /\ \A p \in Producers :
          (tPc[p] = "pub" /\ m_published[Index(claimedRange[p][1])] # claimedRange[p][1]) =>
             \A s \in Seqs :
                Precedes(s, claimedRange[p][1]) =>
                   LastPublishedAfter(m_published, s)
                      \notin RangeSeqs(claimedRange[p][1], claimedRange[p][2])

\* a producer is about to publish a range of two or more sequences, and the
\* publish will resume an awaiter that waits for a sequence of the range
C23_Witness ==
    \E p \in Producers :
        /\ AboutToPublish(p)
        /\ claimedRange[p][2] >= 2
        /\ \E a \in PublishRange(Snapshot, claimedRange[p][1], claimedRange[p][2]).woken :
              m_targetSequence[a] \in RangeSeqs(claimedRange[p][1], claimedRange[p][2])

\* the fields of the sequencer
SequencerFields == <<m_published, m_nextToClaim, m_awaiters, barrier>>

\* this step builds a claim operation for producer p, or drops the one it holds
BuildsOrDropsClaim(p) ==
    \/ HoldsNoClaim(claimOp[p]) /\ ~HoldsNoClaim(claimOp'[p])
    \/ ~HoldsNoClaim(claimOp[p]) /\ claimOp'[p].kind = "dropped"

\* C24: building a claim operation, and dropping one that was not awaited,
\* leave m_nextToClaim and every other field of the sequencer as they were;
\* m_nextToClaim moves only in the step that awaits an operation, and by that
\* operation's count, once
C24_LazyClaim ==
    [][/\ \A p \in Producers :
             BuildsOrDropsClaim(p) =>
                /\ SequencerFields' = SequencerFields
                /\ claimLog' = claimLog /\ claimedRange' = claimedRange
       /\ m_nextToClaim' # m_nextToClaim =>
             \E p \in Producers :
                /\ AwaitsClaim(p)
                /\ m_nextToClaim' = Wrap(m_nextToClaim + claimOp[p].m_count)
       /\ \A p \in Producers :
             AwaitsClaim(p) =>
                /\ m_nextToClaim' = Wrap(m_nextToClaim + claimOp[p].m_count)
                /\ claimLog' = Append(claimLog, <<m_nextToClaim, claimOp[p].m_count>>)
      ]_vars

\* one producer has dropped the operation it built, another has awaited its own,
\* and only the sequences of the second have left the counter
C24_Witness ==
    \E p, q \in Producers :
        /\ claimOp[p].kind = "dropped" /\ claimOp[p].m_count >= 1
        /\ claimOp[q].kind = "awaited"
        /\ Len(claimLog) = 1
        /\ NumClaimed = claimOp[q].m_count

(***************************************************************************)
(* C25: the ring-wrap scenario.                                            *)
(***************************************************************************)
\* the order in which the scenario publishes the sequences 1..10
ScenarioOrder == <<5, 3, 4, 2, 1, 7, 6, 8, 9, 10>>

\* the array after the stores of q, in order
RECURSIVE RingStores(_, _)
RingStores(pub, q) ==
    IF q = <<>> THEN pub
    ELSE RingStores([pub EXCEPT ![RingIndex(Head(q))] = Head(q)], Tail(q))

\* the scenario has made exactly its first k publishes
AtScenarioStep(k) ==
    /\ publishedByCall = Range(Take(ScenarioOrder, k))
    /\ m_published = RingStores(RingInitialPublished, Take(ScenarioOrder, k))

\* what the consumer reads after the publishes made so far
ReadAfterZero == RingLastPublishedAfter(m_published, RingInitial)

\* the values stated for the first eight publishes
StatedProgress == <<0, 0, 0, 0, 5, 0, 0, 7>>

\* the values a ring of four slots gives
RingProgress == <<0, 0, 0, 0, 4, 2, 1, 1, 0, 0>>

\* C25 as stated: in the scenario last_published_after(0) reads 0,0,0,0,5,0,0,7
\* after the first eight publishes and 10 after the last one
C25_RingWrapAsStated ==
    \A k \in 1..Len(ScenarioOrder) :
        AtScenarioStep(k) =>
            /\ k <= Len(StatedProgress) => ReadAfterZero = StatedProgress[k]
            /\ k = Len(ScenarioOrder) => ReadAfterZero = RingLast

\* C25: in the scenario, whose publishes do not wait for the consumer, a later
\* store overwrites the slot of an earlier sequence (5 by 1, 3 by 7, 2 by 6, 4
\* by 8, 1 by 9, 6 by 10), and last_published_after(0) reads 0,0,0,0,4,2,1,1,0,0
\* after the ten publishes; every value it returns ends a run of sequences that
\* the slots hold from 1 on, so no sequence is skipped; the last sequence 10 is
\* read only by a consumer that has reached 6: last_published_after(6) = 10
C25_RingWrap ==
    \A k \in 1..Len(ScenarioOrder) :
        AtScenarioStep(k) =>
            /\ ReadAfterZero = RingProgress[k]
            /\ \A z \in 1..ReadAfterZero : m_published[RingIndex(z)] = z
            /\ k = Len(ScenarioOrder) =>
                   RingLastPublishedAfter(m_published, 6) = RingLast

\* the consumer has read 4 after the scenario's fifth publish, the store of 1
\* in the slot that held 5
C25_Witness ==
    /\ AtScenarioStep(5)
    /\ m_published[RingIndex(5)] = 1
    /\ \E w \in Waiters : known[w] = 4

(***************************************************************************)
(* C26: what last_published_after returns.                                 *)
(***************************************************************************)
\* the slot of z holds z
RingHolds(z) == m_published[RingIndex(z)] = z

\* the sequences y from s on with every sequence after s up to y held by its slot
PublishedPrefixes(s) ==
    {y \in Seqs : Difference(y, s) >= 0 /\ \A z \in Between(s, y) : RingHolds(z)}

\* C26: for every s, last_published_after(s) is the greatest y >= s such that the
\* slot of every z in (s, y] holds z; it is s itself when the slot of s + 1 does
\* not hold s + 1
C26_LastPublishedAfter ==
    \A s \in Seqs :
        LET y == RingLastPublishedAfter(m_published, s) IN
        /\ y \in PublishedPrefixes(s)
        /\ \A y2 \in PublishedPrefixes(s) : Difference(y2, y) <= 0
        /\ ~RingHolds(Wrap(s + 1)) => y = s

\* the consumer has caught up to 3 past the published 1, 2, 3 while 4 and the
\* sequences above it are not published
C26_Witness ==
    /\ publishedByCall = {1, 2, 3}
    /\ \E w \in Waiters : known[w] = 3
    /\ RingLastPublishedAfter(m_published, 1) = 3
    /\ RingLastPublishedAfter(m_published, 3) = 3

(***************************************************************************)
(* C27: an awaiter of the sequencer continues exactly once.                *)
(***************************************************************************)
\* the awaiters a thread or the sequencer holds in one of its lists
ListedAwaiters ==
    Range(m_awaiters) \cup
    UNION {Range(lAwaiters[t]) \cup Range(lToResume[t]) \cup Range(lToRequeue[t]) :
           t \in Threads}

\* w is between the start of await_suspend and the destruction of its awaiter
InWait(w) == tPc[w] \in {"aw_push", "aw_scan", "aw_take", "aw_resume", "aw_exch",
                        "parked", "resumed"}

\* resume() has been called on the awaiter of w: no list holds it any more
ResumeCalled(w) == InWait(w) /\ w \notin ListedAwaiters

\* the step calls resume() on the awaiter of w
CallsResume(w) ==
    \E t \in Threads :
        /\ tPc[t] \in {"rra_resume", "aw_resume"}
        /\ lToResume[t] # <<>>
        /\ Head(lToResume[t]) = w
        /\ lToResume'[t] = Tail(lToResume[t])

\* the step is the exchange of await_suspend on the awaiter of w
SuspendExchange(w) == tPc[w] = "aw_exch" /\ tPc'[w] # "aw_exch"

\* the two exchanges on m_readyToResume as steps
ExchangesInOrder ==
    \A w \in Waiters :
        /\ CallsResume(w) =>
              /\ InWait(w) /\ tPc[w] # "resumed"
              /\ m_readyToResume[w] <=> tPc[w] = "parked"
              /\ tPc[w] = "parked" => tPc'[w] = "resumed"
              /\ tPc[w] # "parked" =>
                    /\ m_readyToResume'[w]
                    /\ tPc'[w] # "resumed"
        /\ SuspendExchange(w) =>
              /\ m_readyToResume[w] <=> ResumeCalled(w)
              /\ tPc'[w] = IF ResumeCalled(w) THEN "resumed" ELSE "parked"
              /\ m_readyToResume'[w]
        /\ (tPc[w] # "resumed" /\ tPc'[w] = "resumed") =>
              \/ SuspendExchange(w) /\ ~CallsResume(w)
              \/ tPc[w] = "parked" /\ CallsResume(w)

\* no coroutine is left suspended after resume(), none can be resumed again
SettledOnce ==
    \A w \in Waiters :
        /\ tPc[w] = "parked" => w \in ListedAwaiters /\ m_readyToResume[w]
        /\ tPc[w] = "resumed" => w \notin ListedAwaiters /\ m_readyToResume[w]
        /\ ResumeCalled(w) => m_readyToResume[w]

\* C27: of the two exchanges on m_readyToResume the first finds false and the
\* second true.  resume() is called once on an awaiter in a wait: when its
\* exchange is the first it sets the flag and resume_impl is not called, when it
\* is the second the coroutine has suspended (await_suspend returned true) and
\* is continued by resume_impl.  await_suspend returns false exactly when
\* resume() has been called before its exchange, and the coroutine goes on by
\* itself.  A coroutine continues only in one of these two steps, a suspended
\* coroutine on whose awaiter resume() has been called is not left suspended,
\* and an awaiter that has continued is in no list from which resume() could be
\* called on it again
C27_ExactlyOnce == []SettledOnce /\ [][ExchangesInOrder]_vars

\* both orders of the two exchanges are under way: resume() has been called on
\* the awaiter of w1 before its await_suspend has made its exchange, and w2 has
\* suspended before resume() is called on its awaiter
C27_Witness ==
    \E w1, w2 \in Waiters :
        /\ tPc[w1] = "aw_exch" /\ ResumeCalled(w1) /\ m_readyToResume[w1]
        /\ tPc[w2] = "parked" /\ w2 \in ListedAwaiters


(***************************************************************************)
(* C28: the integrity of the list of awaiters.                             *)
(***************************************************************************)
\* the awaiters from h along m_next to the null pointer; Garbage stands for a
\* pointer that was never written or a chain longer than there are awaiters
RECURSIVE ChainToNull(_, _)
ChainToNull(h, turns) ==
    IF h = Null THEN <<>>
    ELSE IF h = Garbage \/ turns = 0 THEN <<Garbage>>
    ELSE <<h>> \o ChainToNull(m_next[h], turns - 1)

\* the awaiters from h along m_next to the awaiter last, which a tail points into
RECURSIVE ChainToNode(_, _, _)
ChainToNode(h, last, turns) ==
    IF h = Null \/ h = Garbage \/ turns = 0 THEN <<Garbage>>
    ELSE IF h = last THEN <<h>>
    ELSE <<h>> \o ChainToNode(m_next[h], last, turns - 1)

\* the shared stack
SharedAwaiters == ChainToNull(m_awaitersHead, NumWaiters)

\* the list a call has detached and not split yet
DetachedBy(t) ==
    IF tPc[t] = "p_split" THEN ChainToNull(awaiters[t], NumWaiters) ELSE <<>>

\* the list of awaiters a call will resume: null-terminated once the resuming has
\* started, up to its tail before
ResumeListOf(t) ==
    IF tPc[t] = "p_resume" THEN ChainToNull(awaitersToResume[t], NumWaiters)
    ELSE IF /\ tPc[t] \in {"p_split", "p_cas", "rra_rescan", "rra_retake",
                           "rra_resume", "p_aw_load", "p_aw_cas", "p_aw_scan",
                           "p_aw_take"}
            /\ awaitersToResumeTail[t] # LocalHead
    THEN ChainToNode(awaitersToResume[t], awaitersToResumeTail[t], NumWaiters)
    ELSE <<>>

\* the list a call is about to push on the shared stack
RequeueListOf(t) ==
    IF tPc[t] \in {"p_cas", "p_aw_load", "p_aw_cas"}
    THEN ChainToNode(awaitersToRequeue[t], awaitersToRequeueTail[t], NumWaiters)
    ELSE <<>>

\* the private lists of a thread
PrivateOf(t) == DetachedBy(t) \o ResumeListOf(t) \o RequeueListOf(t)

\* the private lists of the threads 1..n, one after the other
RECURSIVE PrivateUpTo(_)
PrivateUpTo(n) == IF n = 0 THEN <<>> ELSE PrivateUpTo(n - 1) \o PrivateOf(n)

\* every place an awaiter can be in: the shared stack, then the private lists
EveryPlace == SharedAwaiters \o PrivateUpTo(NumProducers + NumWaiters)

\* in how many places of the list s the awaiter w is
CountIn(s, w) == Cardinality({i \in 1..Len(s) : s[i] = w})

\* the awaiter of w exists: from the start of await_suspend to its destruction
AwaiterLives(w) ==
    tPc[w] \in {"p_aw_load", "p_aw_cas", "p_aw_scan", "p_aw_take", "p_resume",
               "aw_exch", "parked", "resumed"}

\* the awaiter of w has been added and resume() has not been called on it
AddedNotResumed(w) ==
    /\ AwaiterLives(w) /\ tPc[w] # "resumed"
    /\ tPc[w] = "parked" \/ ~m_readyToResume[w]

\* C28: every awaiter that has been added and not yet resumed is in exactly one
\* place, the shared stack or one private list of one thread, so none is lost
\* and none is in two lists or twice in one; an awaiter that has been resumed
\* or does not exist is in none; every list ends at a null pointer or at its
\* tail within as many awaiters as there are and holds no pointer that was
\* never written, so there is no cycle, and no loop over a list diverges
C28_ListIntegrity ==
    LET places == EveryPlace IN
    /\ \A t \in Threads : tPc[t] # "p_diverged"
    /\ CountIn(places, Garbage) = 0
    /\ \A w \in Waiters : CountIn(places, w) = IF AddedNotResumed(w) THEN 1 ELSE 0

\* a producer is about to requeue an awaiter while another awaiter has been
\* pushed on the shared stack since it detached: its compare_exchange fails
C28_Witness ==
    \E p \in Producers :
        /\ tPc[p] = "p_cas"
        /\ RequeueListOf(p) # <<>>
        /\ m_awaitersHead # oldHead[p]
        /\ SharedAwaiters # <<>>

(***************************************************************************)
(* C29: a recv aborted in the middle of its payload.                       *)
(***************************************************************************)
\* the words a step of the reader takes from the stream
WordsRead == SubSeq(inStream, rdPos + 1, rdPos')

\* the payload read of the reader is aborted in this step
PayloadAborted == rPc = "payload" /\ rPc' = "next" /\ rEc' = "aborted"

\* the drain at the start of a turn takes words in this step
DrainReads == rPc = "restore" /\ rdPos' > rdPos

\* a read of a header takes words in this step
HeaderReads == rPc = "header" /\ rdPos' > rdPos

\* C29: when the payload read of a recv is aborted with r words of the frame
\* unread, restoreReadSize becomes r and the op fails with operation_aborted; the
\* drain that follows discards exactly r words, all of them payload words of one
\* frame, and after it nothing is left to discard; every read of a header starts
\* at the first word of a frame, so no word of a later frame is discarded
C29_RecvCancelMidRead ==
    [][/\ PayloadAborted =>
             /\ restoreReadSize' = rBufLen - (rdPos' - rdPos)
             /\ restoreReadSize' > 0
       /\ (rPc = "next" /\ rEc = "aborted" /\ ops[rOp].st # "done"
               /\ ops'[rOp].st = "done") => ops'[rOp].res = "aborted"
       /\ DrainReads =>
             /\ \A k \in 1..Len(WordsRead) :
                   /\ WordsRead[k].kind = "P"
                   /\ WordsRead[k].op = WordsRead[1].op
             /\ rEc' = "ok" =>
                   /\ Len(WordsRead) = restoreReadSize
                   /\ restoreReadSize' = 0
       /\ HeaderReads =>
             /\ WordsRead[1].idx = 1
             /\ WordsRead[1].kind \in {"M", "H"}
      ]_vars

(***************************************************************************)
(* C30: every op is completed exactly once.                                *)
(***************************************************************************)
\* op j is in the queue of its slot
InItsQueue(j) ==
    j \in Range(mSendOps2_[ops[j].fork]) \cup Range(mRecvOps2_[ops[j].fork])

\* the ops that have been posted
Posted == {j \in OpIds : ops[j].kind # "none"}

\* the handle of an op is resumed when the op is settled and at no other moment,
\* and a pending op is in the queue of its slot, where a settled one is not
ResumedWithSettling ==
    \A j \in Posted :
        /\ ops[j].st \in {"queued", "done"}
        /\ ops[j].resumed = IF ops[j].st = "done" THEN 1 ELSE 0
        /\ ops[j].st = "queued" <=> InItsQueue(j)

\* a stop callback that finds its op in progress leaves the op to the task, a
\* settled op is settled for good, and a step resumes an op at most once
SettledByOne ==
    \A j \in Posted :
        /\ (ops[j].cb = "idle" /\ ops'[j].cb # "idle" /\ ops[j].inProgress) =>
              /\ ops'[j].st = "queued"
              /\ ops'[j].resumed = 0
              /\ InItsQueue(j)'
        /\ (ops[j].cb = "idle" /\ ops'[j].cb # "idle" /\ ~ops[j].inProgress) =>
              /\ ops'[j].st = "done" /\ ops'[j].res = "aborted"
              /\ ops'[j].resumed = 1
        /\ ops[j].st = "done" =>
              /\ ops'[j].st = "done"
              /\ ops'[j].res = ops[j].res
              /\ ops'[j].resumed = ops[j].resumed

\* C30: the completion handle of every send and recv is resumed exactly once:
\* it has been resumed once when the op is settled and not before, whichever of the
\* stop callback, the writer or reader, close() and closeFork settles it; a stop
\* callback that runs while the op is in progress does not resume it, and a task
\* does not resume an op that the callback, close() or closeFork took out of its
\* queue
C30_ExactlyOnce == []ResumedWithSettling /\ [][SettledByOne]_vars

\* a send that was aborted by its stop callback while the writer had it in hand
\* and was then settled by the writer, a recv that its stop callback settled, and
\* an op that closeFork settled while its stop callback was still to request the
\* stop
C30_Witness ==
    /\ ~mClosed
    /\ \E j, r, c \in Posted :
          /\ ops[j].kind = "send" /\ ops[j].inProgress /\ ops[j].cb = "done"
          /\ ops[j].st = "done" /\ ops[j].res = "aborted"
          /\ ops[r].kind = "recv" /\ ~ops[r].inProgress /\ ops[r].cb = "done"
          /\ ops[r].st = "done" /\ ops[r].res = "aborted"
          /\ ops[c].inProgress /\ ops[c].cb = "stop"
          /\ ops[c].st = "done" /\ ops[c].res = "closed"

(***************************************************************************)
(* C31: the op in progress is the front op of its slot.                    *)
(***************************************************************************)
\* in a queue of a slot no op behind the first is in progress
FrontOnly(q) == \A i \in 2..Len(q) : ~ops[q[i]].inProgress

\* the writer is in sock->send for its op
WriterInIo == wPc \in IoStages

\* the reader is in sock->recv for the payload of its op
ReaderInIo == rPc = "payload"

\* C31: in the send queue and in the recv queue of every slot only the first op
\* may be in progress, and while the writer (the reader) is in the stream call for
\* an op, that op is the front op of the queue of its slot and is in progress
C31_InProgressAtFront ==
    /\ \A f \in Forks : FrontOnly(mSendOps2_[f]) /\ FrontOnly(mRecvOps2_[f])
    /\ WriterInIo => /\ mSendOps2_[wFork] # <<>>
                     /\ Head(mSendOps2_[wFork]) = wOp
                     /\ ops[wOp].inProgress
    /\ ReaderInIo => /\ mRecvOps2_[rFork] # <<>>
                     /\ Head(mRecvOps2_[rFork]) = rOp
                     /\ ops[rOp].inProgress

(***************************************************************************)
(* C32: the pending-send list has one entry of a slot per pending send.    *)
(***************************************************************************)
\* the sends of fork f that are pending
PendingSends(f) == {j \in Pending(ops) : ops[j].kind = "send" /\ ops[j].fork = f}

\* C32: a slot occurs in mSendBuffers_ as many times as its send queue has ops,
\* and these are the pending sends of the slot, whatever sends, completions and
\* cancellations came before; so the slot of every queued send is in the list when
\* its stop callback looks for it
C32_PendingSendList ==
    \A f \in Forks :
        /\ Entries(mSendBuffers_, f) = Len(mSendOps2_[f])
        /\ Range(mSendOps2_[f]) = PendingSends(f)
        /\ Len(mSendOps2_[f]) = Cardinality(PendingSends(f))
        /\ PendingSends(f) # {} => FindFirst(mSendBuffers_, f) \in 1..Len(mSendBuffers_)

\* a send was cancelled while queued behind a send in progress, the writer went on,
\* and the list still holds an entry of each fork: one for the send in progress,
\* one for a send that waits
C32_Witness ==
    /\ \E j \in Created :
          ops[j].kind = "send" /\ ops[j].res = "aborted" /\ ~ops[j].inProgress
    /\ Len(mSendBuffers_) = 2
    /\ Range(mSendBuffers_) = Forks
    /\ wPc \in IoStages
    /\ wire # <<>>

(***************************************************************************)
(* C33: the send in progress is the head op of the head slot.              *)
(***************************************************************************)
\* the pending sends that are in progress
SendsInProgress ==
    {j \in Pending(ops) : ops[j].kind = "send" /\ ops[j].inProgress}

\* C33: a send that is in progress is the head op of the slot at the head of
\* mSendBuffers_, also after a later op of its slot was cancelled while it was
\* being written with other slots queued in between
C33_InProgressAtHead ==
    \A j \in SendsInProgress :
        /\ mSendBuffers_ # <<>>
        /\ Head(mSendBuffers_) = ops[j].fork
        /\ Head(mSendOps2_[Head(mSendBuffers_)]) = j

(***************************************************************************)
(* A peer that writes any frame: a NewSlot frame for any slot-id and any   *)
(* SessionID, bound or not, and a data frame for any slot-id.  Frames of   *)
(* both kinds count towards MaxPeerFrames.                                 *)
(***************************************************************************)
\* the slot-ids the peer names
PeerSlotIds == 1..NumForks

\* the SessionIDs the peer names: those of the local forks and one more
PeerSessions == 1..(NumForks + 1)

\* Header [0, slot-id] and a ControlBlock that holds the SessionID of x
NewSlotFrame(s, x) ==
    <<Word(0, "M", x, 0, 1), Word(s, "M", x, 0, 2)>>
    \o [i \in 1..CtrlBlkWords |-> Word(SidWord(x), "M", x, 0, HeaderWords + i)]

\* Header [n, slot-id] and n payload words
SlotDataFrame(s, k, n, v) ==
    <<Word(n, "H", 0, k, 1), Word(s, "H", 0, k, 2)>>
    \o [i \in 1..n |-> Word(v, "P", 0, k, i)]

PeerNewSlot(s, x) ==
    /\ numPeerFrames < MaxPeerFrames
    /\ rPc \in RecvIoStages
    /\ Len(inStream) - rdPos < rBufLen
    /\ inStream' = inStream \o NewSlotFrame(s, x)
    /\ numPeerFrames' = numPeerFrames + 1
    /\ UNCHANGED <<sharedVars, sendVars, mRecvOps2_, mNumRecvs, mRecvStatus,
                   mRequestedRecvSlot, mRemoteSlotMapping_, mHaveRecvHeader,
                   mRecvHeader, recvSrcLive, recvTokGen, recvStopReq,
                   rPc, rEc, rFork, rOp, rBufLen, rTok, restoreReadSize,
                   rdPos, delivered, peerSeen>>
    /\ UNCHANGED <<lifeVars, slotVars, lockVars, cbVars, seqVars>>

PeerData(s, n, v) ==
    /\ numPeerFrames < MaxPeerFrames
    /\ rPc \in RecvIoStages
    /\ Len(inStream) - rdPos < rBufLen
    /\ inStream' = inStream \o SlotDataFrame(s, numPeerFrames + 1, n, v)
    /\ numPeerFrames' = numPeerFrames + 1
    /\ UNCHANGED <<sharedVars, sendVars, mRecvOps2_, mNumRecvs, mRecvStatus,
                   mRequestedRecvSlot, mRemoteSlotMapping_, mHaveRecvHeader,
                   mRecvHeader, recvSrcLive, recvTokGen, recvStopReq,
                   rPc, rEc, rFork, rOp, rBufLen, rTok, restoreReadSize,
                   rdPos, delivered, peerSeen>>
    /\ UNCHANGED <<lifeVars, slotVars, lockVars, cbVars, seqVars>>

(***************************************************************************)
(* Slot binding: receivers on every fork, the reader with reads that       *)
(* complete, and the peer that writes any frame.                           *)
(***************************************************************************)
SlotIoResults == {"ok"}

SlotNext ==
    \/ \E f \in Forks, n \in 1..MaxPayload : Recv(f, n)
    \/ \E s \in PeerSlotIds, x \in PeerSessions : PeerNewSlot(s, x)
    \/ \E s \in PeerSlotIds, n \in 1..MaxPayload, v \in PayloadVals : PeerData(s, n, v)
    \/ ReaderBegin
    \/ \E ec \in SlotIoResults, bt \in 0..(CtrlBlkWords + MaxPayload) : ReaderIo(ec, bt)
    \/ ReaderGetSlot
    \/ ReaderGotSlot
    \/ ReaderNext

SpecSlot == Init /\ [][SlotNext]_vars

(***************************************************************************)
(* C34: the remote slot-id of a slot is bound once, by a NewSlot frame.    *)
(***************************************************************************)
\* the slot-ids of the peer that are bound
BoundIds == {v \in WordVals : mRemoteSlotMapping_[v] # 0}

\* the reader completes the read of the control block of a meta frame
ReadsControlBlock == rPc = "meta" /\ rdPos' = rdPos + CtrlBlkWords

\* the SessionID, as a fork, in the control block that the reader reads
BlockSession == GetSessionID(SubSeq(inStream, rdPos + 1, rdPos'))

\* the slot-id of the header in hand or the SessionID of the block is bound
AlreadyBound ==
    \/ mRecvHeader[2] \in BoundIds
    \/ \E v \in BoundIds : mRemoteSlotMapping_[v] = BlockSession /\ BlockSession \in Forks

\* a binding never changes, and a new one is made only by a NewSlot frame, for
\* the slot-id of that frame and the slot of its SessionID
BoundByNewSlot ==
    /\ \A v \in BoundIds : mRemoteSlotMapping_'[v] = mRemoteSlotMapping_[v]
    /\ mRemoteSlotMapping_' # mRemoteSlotMapping_ =>
          /\ ReadsControlBlock
          /\ inStream[rdPos + 1].kind = "M"
          /\ ~AlreadyBound
          /\ mRemoteSlotMapping_' =
                [mRemoteSlotMapping_ EXCEPT ![mRecvHeader[2]] = BlockSession]

\* a NewSlot frame for a bound slot-id or a bound SessionID binds nothing and
\* ends the turn with badCoprotoMessageHeader
SecondNewSlotRefused ==
    (ReadsControlBlock /\ AlreadyBound) =>
        /\ mRemoteSlotMapping_' = mRemoteSlotMapping_
        /\ rEc' = "badCoprotoMessageHeader"
        /\ rPc' = "next"

\* the payload of a data frame is read only for a header whose slot-id is bound
\* to the slot of the recv, and a header with an unbound slot-id ends the turn
\* with badCoprotoMessageHeader
DataNeedsBinding ==
    /\ (rPc = "gotslot" /\ rPc' = "payload") =>
          /\ mRecvHeader[2] \in BoundIds
          /\ mRemoteSlotMapping_[mRecvHeader[2]] = ops[rOp'].fork
    /\ (rPc = "gotslot" /\ ~mClosed /\ mRecvHeader[2] \notin BoundIds
            /\ rPc' # "gotslot") =>
          rEc' = "badCoprotoMessageHeader" /\ rPc' = "next"
    /\ (rPc = "getslot" /\ rPc' = "waitslot") => mRecvHeader[2] \in BoundIds

\* C34: the remote slot-id of a slot is set at most once and only when a NewSlot
\* frame of the peer has been read; no payload is read for a fork before its
\* binding exists, a data header with an unbound slot-id fails with
\* badCoprotoMessageHeader, and a second NewSlot frame for a bound slot-id or a
\* bound SessionID changes no binding
C34_RemoteIdBoundOnce ==
    /\ [](\A f \in Forks :
            Cardinality({v \in BoundIds : mRemoteSlotMapping_[v] = f}) <= 1)
    /\ [][BoundByNewSlot /\ SecondNewSlotRefused /\ DataNeedsBinding]_vars

\* a recv has completed with the payload of a frame of a bound slot-id, and then a
\* second NewSlot frame for that slot-id has closed the scheduler with
\* badCoprotoMessageHeader, the binding being what it was
C34_Witness ==
    /\ mClosed /\ mEC = "badCoprotoMessageHeader"
    /\ mRecvHeader[1] = 0
    /\ rdPos > 0 /\ inStream[rdPos].kind = "M"
    /\ \E j \in Created :
          /\ ops[j].kind = "recv" /\ ops[j].res = "ok"
          /\ mRemoteSlotMapping_[mRecvHeader[2]] = ops[j].fork


(***************************************************************************)
(* Slot negotiation on its own: local operations that mention a SessionID  *)
(* and NewSlot frames of the peer, in every order.                         *)
(***************************************************************************)
\* the slot-ids the peer announces
RemoteSlotIds == 1..(NumForks + 1)

SlotOf(t, x) == t.slots[t.ids[x]]

RemoteIdBound(t, v) == \E i \in 1..Len(t.slots) : t.slots[i].mRemoteId = v

\* initRemoteSlot: a slot-id that is bound, or a SessionID whose Slot has a remote
\* slot-id, is refused
InitRemoteSlotTableEc(t, v, x) ==
    IF RemoteIdBound(t, v) \/ (t.ids[x] # 0 /\ SlotOf(t, x).mRemoteId # NoId)
    THEN "badCoprotoMessageHeader"
    ELSE "ok"

\* initRemoteSlot: the Slot of the SessionID, made if need be, gets the peer's slot-id
InitRemoteSlotTable(t, v, x) ==
    IF InitRemoteSlotTableEc(t, v, x) # "ok"
    THEN t
    ELSE LET u == GetLocalSlot(t, x) IN
         [u EXCEPT !.slots[u.ids[x]].mRemoteId = v]

\* a local send or recv on the fork of SessionID x looks its Slot up
SlotLocalOp(x) ==
    /\ LET t == GetLocalSlot(SlotTables, x) IN
       /\ mSlots_' = t.slots
       /\ mNextLocalSlot' = t.next
       /\ mIdSlotMapping_' = t.ids
       /\ slotCall' = [kind |-> "local", sid |-> x, id |-> SlotOf(t, x).mLocalId,
                       ec |-> "ok"]
    /\ UNCHANGED <<sharedVars, sendVars, recvVars, lifeVars, lockVars, cbVars, seqVars>>

\* the reader binds the peer's NewSlot frame [0, v, x]
SlotNewSlot(x, v) ==
    /\ LET t == InitRemoteSlotTable(SlotTables, v, x) IN
       /\ mSlots_' = t.slots
       /\ mNextLocalSlot' = t.next
       /\ mIdSlotMapping_' = t.ids
       /\ slotCall' = [kind |-> "remote", sid |-> x, id |-> v,
                       ec |-> InitRemoteSlotTableEc(SlotTables, v, x)]
    /\ UNCHANGED <<sharedVars, sendVars, recvVars, lifeVars, lockVars, cbVars, seqVars>>

ConvergeNext ==
    \/ \E x \in SlotSessions : SlotLocalOp(x)
    \/ \E x \in SlotSessions, v \in RemoteSlotIds : SlotNewSlot(x, v)

SpecConverge == Init /\ [][ConvergeNext]_vars

(***************************************************************************)
(* C35  Slot convergence.                                                  *)
(***************************************************************************)
SlotsOfSession(x) == {i \in 1..Len(mSlots_) : mSlots_[i].mSessionID = x}

\* the local slot-ids are 1, 2, ... in the order the Slots were made
LocalIdsInOrder ==
    /\ \A i \in 1..Len(mSlots_) : mSlots_[i].mLocalId = i
    /\ mNextLocalSlot = Len(mSlots_) + 1

OneSlotPerSession ==
    \A x \in SlotSessions :
        /\ Cardinality(SlotsOfSession(x)) <= 1
        /\ SlotsOfSession(x) = IF mIdSlotMapping_[x] = 0 THEN {} ELSE {mIdSlotMapping_[x]}

\* a Slot stays, keeps its SessionID and its local slot-id, and a remote slot-id
\* it has is not changed
SlotsKept ==
    /\ Len(mSlots_') >= Len(mSlots_)
    /\ \A i \in 1..Len(mSlots_) :
          /\ mSlots_'[i].mSessionID = mSlots_[i].mSessionID
          /\ mSlots_'[i].mLocalId = mSlots_[i].mLocalId
          /\ mSlots_[i].mRemoteId # NoId => mSlots_'[i].mRemoteId = mSlots_[i].mRemoteId

\* the SessionID that was looked up or bound has its Slot afterwards: a local
\* operation gets the local slot-id of it, an accepted NewSlot leaves the peer's
\* slot-id in it, and a Slot that was there before is the one that is used; a
\* refused NewSlot changes nothing
CallConverges ==
    slotCall' # slotCall \/ mSlots_' # mSlots_ =>
        LET x == slotCall'.sid IN
        IF slotCall'.ec # "ok"
        THEN <<mSlots_', mNextLocalSlot', mIdSlotMapping_'>>
                 = <<mSlots_, mNextLocalSlot, mIdSlotMapping_>>
        ELSE
        /\ mIdSlotMapping_'[x] # 0
        /\ mIdSlotMapping_[x] # 0 => /\ mIdSlotMapping_'[x] = mIdSlotMapping_[x]
                                     /\ Len(mSlots_') = Len(mSlots_)
        /\ mIdSlotMapping_[x] = 0 => /\ Len(mSlots_') = Len(mSlots_) + 1
                                     /\ mIdSlotMapping_'[x] = Len(mSlots_')
        /\ slotCall'.kind = "local" => slotCall'.id = mSlots_'[mIdSlotMapping_'[x]].mLocalId
        /\ (slotCall'.kind = "remote" /\ slotCall'.ec = "ok") =>
               mSlots_'[mIdSlotMapping_'[x]].mRemoteId = slotCall'.id

\* C35: whatever the order of the first local operation on a SessionID and the
\* peer's NewSlot frame for it, the SessionID has exactly one Slot afterwards,
\* with the local slot-id chosen here and the peer's slot-id; the local
\* slot-ids are distinct, start at 1 and are never given twice.
C35_SlotConvergence ==
    /\ [](LocalIdsInOrder /\ OneSlotPerSession /\ mNextLocalSlot >= FirstLocalSlot
          /\ (Len(mSlots_) > 0 => mSlots_[1].mLocalId = 1))
    /\ [][SlotsKept /\ CallConverges]_vars

\* a SessionID other than the scheduler's own whose Slot was made by the peer's
\* NewSlot frame and then found by a local operation, next to one made in the
\* other order
C35_Witness ==
    /\ Len(mSlots_) = 3
    /\ \A i \in 1..3 : mSlots_[i].mRemoteId # NoId
    /\ slotCall.kind = "local" /\ slotCall.ec = "ok" /\ slotCall.id = 2
    /\ mSlots_[3].mRemoteId = 1


(***************************************************************************)
(* C36  Cancel of an op that a task has taken.                             *)
(***************************************************************************)
\* the part of j's stop callback under the mutex runs in this step, and finds
\* mInProgress set
CancelFindsInProgress(j) ==
    ops[j].cb = "idle" /\ ops'[j].cb # "idle" /\ ops[j].inProgress

\* j's stop callback has run and has left j in its queue
CancelledInProgress(j) == ops[j].st = "queued" /\ ops[j].cb # "idle"

SrcLive(j) == IF ops[j].kind = "send" THEN sendSrcLive ELSE recvSrcLive
SrcLiveAfter(j) == IF ops[j].kind = "send" THEN sendSrcLive' ELSE recvSrcLive'
StopRequests(j) == IF ops[j].kind = "send" THEN stopReq ELSE recvStopReq
StopRequestsAfter(j) == IF ops[j].kind = "send" THEN stopReq' ELSE recvStopReq'

\* under the mutex the callback leaves the op where it is and resumes nobody
CancelKeepsOp ==
    \A j \in OpIds : CancelFindsInProgress(j) =>
        /\ ops' = [ops EXCEPT ![j].cb = ops'[j].cb, ![j].cbGen = ops'[j].cbGen]
        /\ UNCHANGED <<flushes, mSendOps2_, mSendBuffers_, mRecvOps2_, mNumRecvs,
                       mSendStatus, mRecvStatus, stopReq, recvStopReq>>

\* as stated: under the mutex the callback takes the stop source of its side
CancelTakesSource ==
    \A j \in OpIds : CancelFindsInProgress(j) =>
        /\ SrcLive(j) /\ ~SrcLiveAfter(j)
        /\ ops'[j].cb = "stop"

\* under the mutex the callback takes the stop source of its side if an earlier
\* callback has not taken it, and otherwise ends without a request
CancelTakesSourceIfThere ==
    \A j \in OpIds : CancelFindsInProgress(j) =>
        IF SrcLive(j)
        THEN ~SrcLiveAfter(j) /\ ops'[j].cb = "stop"
        ELSE ~SrcLiveAfter(j) /\ ops'[j].cb = "done"

\* after the mutex the callback requests the stop, once, and resumes nobody
CancelRequestsStopOnce ==
    \A j \in OpIds : (ops[j].cb = "stop" /\ ops'[j].cb # "stop") =>
        /\ ops' = [ops EXCEPT ![j].cb = "done"]
        /\ ops[j].cbGen \notin StopRequests(j)
        /\ StopRequestsAfter(j) = StopRequests(j) \cup {ops[j].cbGen}
        /\ UNCHANGED flushes

\* a callback run that resumes a handle requests no stop
ResumeOrStop ==
    \A j \in OpIds :
        (ops[j].cb = "idle" /\ ops'[j].cb # "idle" /\ ops'[j].resumed # ops[j].resumed) =>
            /\ ops'[j].cb = "done"
            /\ UNCHANGED <<stopReq, recvStopReq, sendSrcLive, recvSrcLive>>

\* the step is NextSendOp or anyRecvOp of the op's task
SettledByTask(j) ==
    IF ops[j].kind = "send" THEN wPc = "next" /\ wPc' # "next"
                            ELSE rPc = "next" /\ rPc' # "next"

\* as stated: the op is then settled by its task with operation_aborted
CancelledSettlesAborted ==
    \A j \in OpIds : (CancelledInProgress(j) /\ ops'[j].st = "done") =>
        /\ ops'[j].res = "aborted"
        /\ SettledByTask(j)

TaskEc(j) == IF ops[j].kind = "send" THEN wEc ELSE rEc

\* the callback does not settle the op; the op ends as aborted or as done only
\* in NextSendOp or anyRecvOp of its task, with the result of the task's transfer,
\* and otherwise with the error of a close
CancelledSettledByTask ==
    \A j \in OpIds : (CancelledInProgress(j) /\ ops'[j].st = "done") =>
        /\ ops'[j].cb = ops[j].cb
        /\ ops'[j].resumed = ops[j].resumed + 1
        /\ ops'[j].res # "none"
        /\ ~IsError(ops'[j].res) => SettledByTask(j) /\ ops'[j].res = TaskEc(j)

CancelCallbackRunAsStated ==
    CancelKeepsOp /\ CancelTakesSource /\ CancelRequestsStopOnce /\ ResumeOrStop

CancelCallbackRun ==
    CancelKeepsOp /\ CancelTakesSourceIfThere /\ CancelRequestsStopOnce /\ ResumeOrStop

\* C36 as stated: the stop callback of an op in progress takes the mutex once,
\* leaves the op in its queue and resumes nobody, takes the stop source of its
\* side and requests the stop once after the mutex; no run of a callback both
\* resumes a handle and requests a stop; and the op is then settled by the
\* writer or the reader with operation_aborted.
C36_CancelInProgressAsStated ==
    [][CancelCallbackRunAsStated /\ CancelledSettlesAborted]_vars

\* C36, amended: the callback takes the mutex once, leaves the op in its queue
\* and resumes nobody, takes the stop source of its side if it is still there
\* and then requests the stop once after the mutex; no run of a callback both
\* resumes a handle and requests a stop; the op is then settled by the writer
\* or the reader with the result of the transfer, which is operation_aborted
\* when the stop aborts the transfer and success when the transfer ends before
\* the stop is requested, or it fails with the error of a close.
C36_CancelInProgress == [][CancelCallbackRun /\ CancelledSettledByTask]_vars

\* an op cancelled while its task held it, settled with operation_aborted by the
\* task after the callback's request_stop
C36_Witness ==
    \E j \in OpIds :
        /\ ops[j].st = "done" /\ ops[j].res = "aborted"
        /\ ops[j].inProgress /\ ops[j].cb = "done" /\ ops[j].resumed = 1
        /\ ops[j].cbGen \in (IF ops[j].kind = "send" THEN stopReq ELSE recvStopReq)
        /\ ops[j].kind = "recv"

(***************************************************************************)
(* Sends without cancellation: payloads of every size on every fork, and   *)
(* writes that succeed or fail whole.                                      *)
(***************************************************************************)
WireIoResults == {"ok", "error"}

WireNext ==
    \/ \E f \in Forks, n \in 1..MaxPayload : Send(f, n)
    \/ WriterBegin
    \/ \E ec \in WireIoResults, bt \in {0, Len(wBuf)} : WriterIo(ec, bt)
    \/ WriterNext

SpecWire == Init /\ [][WireNext]_vars

(***************************************************************************)
(* C37  Wire format without cancellation.                                  *)
(***************************************************************************)
\* o is the first send that was posted on its fork
FirstSendOfFork(o) ==
    \A i \in 1..(o - 1) : ~(ops[i].kind = "send" /\ ops[i].fork = ops[o].fork)

\* what the claim says the writer emits for the send o: [0, L, S] if o is the
\* first send of its slot, then [|p|, L], then p
StatedFrames(o) ==
    (IF FirstSendOfFork(o) THEN MetaFrame(ops[o].fork) ELSE <<>>)
    \o HeaderOf(ops[o].fork, o, ops[o].size)
    \o PayloadOf(ops[o].fork, o, ops[o].size)

\* the stated frames of the sends o, o + 1, ... in the order of posting
RECURSIVE StatedWireFrom(_)
StatedWireFrom(o) ==
    IF o > numOps THEN <<>>
    ELSE (IF ops[o].kind = "send" THEN StatedFrames(o) ELSE <<>>)
         \o StatedWireFrom(o + 1)

\* the words at 1, 2, ... of a meta frame are 0, the local slot-id and the SessionID
MetaWordsAsStated ==
    \A i \in 1..Len(wire) : wire[i].kind = "M" =>
        wire[i].val = CASE wire[i].idx = 1 -> 0
                        [] wire[i].idx = 2 -> LocalId(wire[i].fork)
                        [] OTHER -> SidWord(wire[i].fork)

\* the size word of a data frame is the length of the payload of its send, which
\* is not 0, and exactly that many payload words follow the header
SizeWordIsLength ==
    \A i \in 1..Len(wire) : (wire[i].kind = "H" /\ wire[i].idx = 1) =>
        /\ wire[i].val > 0
        /\ wire[i].val = ops[wire[i].op].size
        /\ \A d \in 1..(wire[i].val + 2) :
              i + d <= Len(wire) =>
                  IF d = 1 THEN wire[i + d].kind = "H" /\ wire[i + d].val = LocalId(wire[i].fork)
                  ELSE IF d <= wire[i].val + 1
                       THEN wire[i + d].kind = "P" /\ wire[i + d].op = wire[i].op
                       ELSE wire[i + d].kind # "P"

\* C37: without cancellation the stream holds, for the sends in the order of
\* their posting, the meta frame [0, L, S] if the send is the first of its slot,
\* then the header [|p|, L], then the payload p; the size word of a data frame is
\* never 0 and is the length of the payload that follows it.
C37_WireFormat ==
    /\ Len(wire) <= Len(StatedWireFrom(1))
    /\ wire = Take(StatedWireFrom(1), Len(wire))
    /\ MetaWordsAsStated
    /\ SizeWordIsLength

\* three sends have succeeded, two of them on one fork and with payloads of
\* different lengths, and all their frames are on the stream
C37_Witness ==
    /\ numOps = 3
    /\ \A o \in 1..3 : ops[o].kind = "send" /\ ops[o].st = "done" /\ ops[o].res = "ok"
    /\ ops[1].fork = ops[3].fork /\ ops[2].fork # ops[1].fork
    /\ ops[1].size # ops[3].size
    /\ wire = StatedWireFrom(1)


(***************************************************************************)
(* The constructor of sequence_mpsc, store by store, for every buffer size *)
(* it accepts and every initial sequence, and a first                      *)
(* last_published_after(initialSequence) on what it has built.             *)
(***************************************************************************)
\* assert(bufferSize > 0 && (bufferSize & (bufferSize - 1)) == 0);
\* assert(bufferSize <= maxSize)
CtorSizes == {n \in 1..MaxDiff : \E b \in 0..SeqBits : n = 2 ^ b}

\* the array before the loop has stored to it
Unwritten == 0 - 1

\* the size of the array in hand
CtorSize == Cardinality(DOMAIN m_published)

\* a loop that tests the incremented cursor
LoopAgainIncremented(s, i) == Wrap(s + 1) # i

\* while (seq++ != initialSequence): the test of the cursor before its increment
LoopAgain(s, i) == s # i

\* SEQUENCE seq = initialSequence - (bufferSize - 1)
CtorFirstSeq(i, n) == Wrap(i + SeqMod - (n - 1))

\* last_published_after on an array of n slots: seq & mask is seq % n
RECURSIVE LastPublishedAfterOf(_, _, _)
LastPublishedAfterOf(pub, n, x) ==
    IF pub[Wrap(x + 1) % n] = Wrap(x + 1)
    THEN LastPublishedAfterOf(pub, n, Wrap(x + 1))
    ELSE x

CtorInit ==
    /\ SchedInit
    /\ \E n \in CtorSizes, i \in Seqs :
          /\ SeqInitFields(i, {}, [x \in 0..(n - 1) |-> Unwritten])
          /\ ctorPc = "loop"
          /\ ctorSeq = CtorFirstSeq(i, n)
          /\ ctorStores = <<>>
          /\ ctorRet = Unwritten

\* one turn of the do-while: the store, the test, the increment
CtorStore ==
    /\ ctorPc = "loop"
    /\ m_published' = [m_published EXCEPT ![ctorSeq % CtorSize] = ctorSeq]
    /\ ctorStores' = Append(ctorStores, ctorSeq % CtorSize)
    /\ ctorPc' = IF LoopAgain(ctorSeq, initialSequence) THEN "loop" ELSE "built"
    /\ ctorSeq' = Wrap(ctorSeq + 1)
    /\ UNCHANGED <<schedVars, listVars, claimOp, active, initialSequence, m_nextToClaim,
                   m_awaiters, barrier, publishedByCall, claimLog, tPc, claimedRange,
                   pubQ, m_targetSequence, m_lastKnownPublished, m_readyToResume,
                   retVal, known, lAwaiters, lToResume, lToRequeue, lLkp, lTarget,
                   lSeq, ctorRet>>

\* last_published_after(initialSequence) on the sequencer just built
CtorObserve ==
    /\ ctorPc = "built"
    /\ ctorRet' = LastPublishedAfterOf(m_published, CtorSize, initialSequence)
    /\ ctorPc' = "observed"
    /\ UNCHANGED <<schedVars, listVars, claimOp, active, initialSequence, m_published,
                   m_nextToClaim, m_awaiters, barrier, publishedByCall, claimLog, tPc,
                   claimedRange, pubQ, m_targetSequence, m_lastKnownPublished,
                   m_readyToResume, retVal, known, lAwaiters, lToResume, lToRequeue,
                   lLkp, lTarget, lSeq, ctorSeq, ctorStores>>

CtorNext == CtorStore \/ CtorObserve

SpecCtor == CtorInit /\ [][CtorNext]_vars

\* the loop is a single thread: it goes on while it can
SpecCtorFair == SpecCtor /\ WF_vars(CtorNext)

(***************************************************************************)
(* C38  Sequencer construction.                                            *)
(***************************************************************************)
\* the sequences initialSequence - (bufferSize - 1) .. initialSequence
CtorRange == {Wrap(initialSequence + SeqMod - d) : d \in 0..(CtorSize - 1)}

CtorLoopBounded ==
    /\ Len(ctorStores) <= CtorSize
    /\ ctorPc = "loop" <=> Len(ctorStores) < CtorSize
    /\ \A a, b \in 1..Len(ctorStores) : a # b => ctorStores[a] # ctorStores[b]
    /\ \A x \in DOMAIN m_published :
          IF x \in Range(ctorStores)
          THEN m_published[x] \in CtorRange /\ m_published[x] % CtorSize = x
          ELSE m_published[x] = Unwritten

CtorBuilt ==
    ctorPc \in {"built", "observed"} =>
        /\ Len(ctorStores) = CtorSize
        /\ Range(ctorStores) = DOMAIN m_published
        /\ m_nextToClaim = Wrap(initialSequence + 1)
        /\ \A z \in Seqs : z \notin CtorRange => m_published[z % CtorSize] # z

CtorNothingPublished == ctorPc = "observed" => ctorRet = initialSequence

\* C38: for every power-of-two buffer size N and every initial sequence I, also
\* the greatest one, after which I + 1 is 0, the loop of the constructor ends
\* after exactly N stores, stores to each index of the array exactly once a
\* value of I - (N - 1) .. I, and last_published_after(I) is I afterwards.
C38_Construction ==
    /\ [](CtorLoopBounded /\ CtorBuilt /\ CtorNothingPublished)
    /\ <>(ctorPc = "observed")

\* the constructor has run with the greatest initial sequence and a buffer of
\* more than one slot, so that the cursor has gone from the top of the range to 0
C38_Witness ==
    /\ ctorPc = "observed"
    /\ initialSequence = SeqMod - 1
    /\ m_nextToClaim = 0
    /\ CtorSize > 1
    /\ Len(ctorStores) = CtorSize
    /\ ctorRet = initialSequence


(***************************************************************************)
(* The mutex.  Each party is followed through the places of its code that  *)
(* matter to mMutex: where it asks for it, where it holds it, where a      *)
(* stream call of it is outstanding, and where it resumes a handle or      *)
(* requests a stop.                                                        *)
(*   tasks      "parked"    suspended in NextSendOp / anyRecvOp            *)
(*              "next"      entering NextSendOp / anyRecvOp                *)
(*              "inNext"    in it, under the mutex                         *)
(*              "resume"    resuming the handles of the op just settled    *)
(*              "io"        suspended in sock->send / sock->recv           *)
(*   reader     "meta"      a control block is read, about to take the lock*)
(*              "inInit"    in initRemoteSlot, under the mutex             *)
(*              "getslot"   entering getRequestedRecvSlot                  *)
(*              "inGetSlot" in it, under the mutex                         *)
(*              "waitslot"  suspended in it                                *)
(*   callbacks  "idle", "called", "locked", "resume", "stop"               *)
(*   caller     "idle", "calling", "inCall", "resume": a send(), recv(),   *)
(*              flush() or close() of the user                             *)
(***************************************************************************)
\* a lock that outlives the block it is declared in
ScopeEndKeeps(holder) == holder

\* the closing brace of the block that declares the Lock: ~unique_lock unlocks
ScopeEnd(holder) == "free"

LockStep(p, from, to, mu) ==
    /\ lockPc[p] = from
    /\ lockPc' = [lockPc EXCEPT ![p] = to]
    /\ mMutex' = mu
    /\ UNCHANGED <<sharedVars, sendVars, recvVars, lifeVars, slotVars, cbVars, seqVars>>

\* Lock l(mMutex): the party waits until the mutex is free
LockAcquire(p, from, to) == mMutex = "free" /\ LockStep(p, from, to, p)

\* the end of the scope of the lock
LockRelease(p, from, to) == mMutex = p /\ LockStep(p, from, to, ScopeEnd(p))

\* a step that neither takes nor gives the mutex
LockFree(p, from, to) == LockStep(p, from, to, mMutex)

\* the stop callback of an op: Lock l(s.mMutex) in a block of its own, then
\* cb.get().resume() or cancelSrc.request_stop() or neither
CbCalled(c) == LockFree(c, "idle", "called")
CbLock(c) == LockAcquire(c, "called", "locked")
CbUnlock(c, to) == LockRelease(c, "locked", to)
CbResume(c) == LockFree(c, "resume", "idle")
CbRequestStop(c) == LockFree(c, "stop", "idle")

\* NextSendOp / anyRecvOp: the bookkeeping under the mutex, then the handles of the
\* settled op are resumed, then the task goes on or stays suspended
TaskEnter(t) == LockAcquire(t, "next", "inNext")
TaskLeave(t) == LockRelease(t, "inNext", "resume")
TaskResumes(t, to) == LockFree(t, "resume", to)

\* a sock->send of the writer completes: the next write of the frame, or NextSendOp
WriterIoDone(to) == LockFree("writer", "io", to)

\* a sock->recv of the reader completes
ReaderIoDone(to) == LockFree("reader", "io", to)

\* auto lock = SockScheduler::Lock(mMutex); ec = initRemoteSlot(slotId, sid, lock);
ReaderMetaLock == LockAcquire("reader", "meta", "inInit")

\* if (ec) break; } : the block of the lock ends before the next sock->recv
ReaderMetaUnlock(to) == LockRelease("reader", "inInit", to)

\* getRequestedRecvSlot
ReaderSlotLock == LockAcquire("reader", "getslot", "inGetSlot")
ReaderSlotUnlock(to) == LockRelease("reader", "inGetSlot", to)

\* send(), recv(), flush(), close(): the bookkeeping under the mutex, then a
\* suspended task is resumed, if the call has work for one
CallStart == LockFree("caller", "idle", "calling")
CallLock == LockAcquire("caller", "calling", "inCall")
CallUnlock == LockRelease("caller", "inCall", "resume")
CallReturns == LockFree("caller", "resume", "idle")
CallResumes(t) ==
    /\ lockPc["caller"] = "resume"
    /\ lockPc[t] \in {"parked", "waitslot"}
    /\ lockPc' = [lockPc EXCEPT !["caller"] = "idle", ![t] = "io"]
    /\ UNCHANGED mMutex
    /\ UNCHANGED <<sharedVars, sendVars, recvVars, lifeVars, slotVars, cbVars, seqVars>>

LockNext ==
    \/ \E c \in Callbacks : CbCalled(c) \/ CbLock(c) \/ CbResume(c) \/ CbRequestStop(c)
    \/ \E c \in Callbacks, to \in {"resume", "stop", "idle"} : CbUnlock(c, to)
    \/ \E t \in Tasks : TaskEnter(t) \/ TaskLeave(t)
    \/ \E t \in Tasks, to \in {"io", "parked"} : TaskResumes(t, to)
    \/ \E to \in {"io", "next"} : WriterIoDone(to)
    \/ \E to \in {"io", "meta", "getslot", "next"} : ReaderIoDone(to)
    \/ ReaderMetaLock
    \/ \E to \in {"io", "next"} : ReaderMetaUnlock(to)
    \/ ReaderSlotLock
    \/ \E to \in {"io", "next", "waitslot"} : ReaderSlotUnlock(to)
    \/ CallStart
    \/ CallLock
    \/ CallUnlock
    \/ CallReturns
    \/ \E t \in Tasks : CallResumes(t)

SpecLock == Init /\ [][LockNext]_vars

(***************************************************************************)
(* C39  The mutex is not held across I/O, resumes or stop requests.        *)
(***************************************************************************)
\* the places inside the scope of a lock
HoldingPcs == {"inNext", "inInit", "inGetSlot", "locked", "inCall"}

\* the places where a party waits for the mutex
WantingPcs == {"next", "meta", "getslot", "called", "calling"}

\* the places where a party waits for the stream or for another party
SuspendedPcs == {"io", "parked", "waitslot"}

Holds(p) == mMutex = p

\* C39: a task does not hold the mutex while a stream call of it is
\* outstanding or while it is suspended, no party holds it while it resumes a
\* handle or requests a stop, and so whoever holds the mutex is inside the
\* scope of its lock and gives it back without waiting for anything: the
\* writer, the reader and a callback never wait for each other.
C39_MutexDiscipline ==
    /\ \A t \in Tasks : lockPc[t] \in SuspendedPcs => ~Holds(t)
    /\ \A p \in LockParties : lockPc[p] \in {"resume", "stop"} => ~Holds(p)
    /\ \A p \in LockParties : lockPc[p] \in WantingPcs => ~Holds(p)
    /\ mMutex # "free" => mMutex \in LockParties /\ lockPc[mMutex] \in HoldingPcs
    /\ (\E p \in LockParties : lockPc[p] \in WantingPcs) =>
          \/ mMutex = "free"
          \/ lockPc[mMutex] \notin WantingPcs \cup SuspendedPcs

\* both tasks are suspended in stream calls, a callback is about to request a
\* stop, and the other callback holds the mutex while the caller waits for it
C39_Witness ==
    /\ lockPc["writer"] = "io" /\ lockPc["reader"] = "io"
    /\ lockPc["sendCb"] = "stop"
    /\ lockPc["recvCb"] = "locked" /\ Holds("recvCb")
    /\ lockPc["caller"] = "calling"


(***************************************************************************)
(* CBList: push_back of handles, then one get().                           *)
(***************************************************************************)
\* the handles that are pushed at most
MaxPush == 10

\* SmallBuffer = std::array<coroutine_handle<>, 8>
SmallBufferSize == 8

\* the handle of an op (mCH2) or of a flush token (mHandle), as getCB pushes them
HandleKinds == {"op", "flush"}

\* macoro::noop_coroutine()
NoopHandle == "noop"

\* push_back: into the small buffer while mSize is below its size, else into mVec
PushBack(h) ==
    /\ cbReturned = NoHandle
    /\ Len(cbPushed) < MaxPush
    /\ IF mSize >= SmallBufferSize
       THEN /\ mVec' = Append(mVec, h)
            /\ UNCHANGED <<mSize, mArray>>
       ELSE /\ mArray' = Append(mArray, h)
            /\ mSize' = mSize + 1
            /\ UNCHANGED mVec
    /\ cbPushed' = Append(cbPushed, h)
    /\ UNCHANGED <<cbResumed, cbReturned>>
    /\ UNCHANGED <<sharedVars, sendVars, recvVars, lifeVars, slotVars, lockVars, seqVars>>

\* get(): the handles it resumes, in order, and the one it returns
CBListGet(size, array, vec) ==
    IF size = 0
    THEN [resumed |-> <<>>, ret |-> NoopHandle]
    ELSE LET last  == size - 1
             first == SubSeq(array, 1, Min(last, SmallBufferSize))
         IN IF size <= SmallBufferSize
            THEN [resumed |-> first, ret |-> array[last + 1]]
            ELSE [resumed |-> first \o SubSeq(vec, 1, Len(vec) - 1),
                  ret |-> vec[Len(vec)]]

Get ==
    /\ cbReturned = NoHandle
    /\ LET r == CBListGet(mSize, mArray, mVec) IN
       /\ cbResumed' = r.resumed
       /\ cbReturned' = r.ret
    /\ UNCHANGED <<mSize, mArray, mVec, cbPushed>>
    /\ UNCHANGED <<sharedVars, sendVars, recvVars, lifeVars, slotVars, lockVars, seqVars>>

CBListNext ==
    \/ \E x \in HandleKinds : PushBack(<<Len(cbPushed) + 1, x>>)
    \/ Get

SpecCBList == Init /\ [][CBListNext]_vars

(***************************************************************************)
(* C40  CBList delivers every callback.                                    *)
(***************************************************************************)
GetDone == cbReturned # NoHandle

\* C40: after any number n of push_back calls, also more than the small buffer
\* holds, get() resumes all but one of the n handles and returns the remaining
\* one, so that each pushed handle is resumed or returned exactly once and
\* none is dropped; with n = 0 it returns the no-op handle.
C40_CBListDelivers ==
    GetDone =>
        IF cbPushed = <<>>
        THEN cbReturned = NoopHandle /\ cbResumed = <<>>
        ELSE /\ Len(cbResumed) = Len(cbPushed) - 1
             /\ cbReturned \in Range(cbPushed)
             /\ cbReturned \notin Range(cbResumed)
             /\ Range(cbResumed) \cup {cbReturned} = Range(cbPushed)

====
